---- MODULE Spec2Model ----
(***************************************************************************)
(* A model of the SVG text layout core of KoSvgTextShape                   *)
(* (libs/flake/text/KoSvgTextShape_p_layout.cpp): relayout() and the       *)
(* position passes it calls.                                               *)
(*                                                                         *)
(* Conventions.                                                            *)
(*  - QVector indices are 0-based in the code; a QVector is a sequence     *)
(*    here and At(v, k) reads element k of the code.                       *)
(*  - Only the coordinate along the writing-mode axis is modelled (x for   *)
(*    horizontal text, y for vertical text): a qreal is an integer number  *)
(*    of layout units and every input is a multiple of Unit, so that the   *)
(*    divisions the code performs are exact.                               *)
(*  - The shaping engine, the glyph loader, the break classifier and the   *)
(*    white-space collapser are collaborators: their answers are inputs    *)
(*    (the variable ans), drawn from bounded sets.                         *)
(***************************************************************************)
EXTENDS Integers, Sequences, FiniteSets, TLC

VARIABLES
    textData,                  \* the styled text tree (a forest: <<>> or one root subtree)
    props,                     \* root properties: direction, anchor, wrapped
    ans,                       \* the collaborators' answers to the latest relayout
    result,                    \* this->result
    cursorPos,                 \* this->cursorPos
    logicalToVisualCursorPos,  \* this->logicalToVisualCursorPos
    lineBoxes,                 \* this->lineBoxes
    nodeOut,                   \* per node: associatedOutline, textDecorations, ...
    runs,                      \* relayout calls since the tree was last edited
    lineBoxesAge,              \* which call computed lineBoxes: "initial", "fresh", "stale"
    fault,                     \* what went wrong in the latest relayout ("none" if nothing)
    trace,                     \* intermediate values of the latest relayout
    arg, ret, pc               \* argument, return value and position of a single-pass run

vars == <<textData, props, ans, result, cursorPos, logicalToVisualCursorPos,
          lineBoxes, nodeOut, runs, lineBoxesAge, fault, trace, arg, ret, pc>>

layoutVars == <<textData, props, ans, result, cursorPos, logicalToVisualCursorPos,
                lineBoxes, nodeOut, runs, lineBoxesAge, fault, trace>>

----------------------------------------------------------------------------
\* Bounds of the model.

\* longest text (UTF-16 code units) of a tree
MaxChars == 3
\* relayout calls explored on an unchanged tree
MaxRuns == 2
\* longest character array handed to a single pass
MaxPassChars == 3
\* longest text of a tree with two leaves
MaxSplitChars == 2
\* most glyphs of one text that fail to load
MaxFailed == 1

\* one layout unit step; every advance and coordinate is a multiple of it
Unit == 60

\* "no index": firstCluster, visualIndex, plaintTextIndex, dummyIndex start at -1
NoIndex == -1

\* the value standing for a non-finite qreal (x / 0 is +-inf or NaN in IEEE 754)
NonFinite == 1000000000

----------------------------------------------------------------------------
\* Sequence helpers.

At(v, k) == v[k + 1]

Put(v, k, e) == [n \in 1 .. Len(v) |-> IF n = k + 1 THEN e ELSE v[n]]

Indices(v) == 0 .. (Len(v) - 1)

InsertAt(v, k, e) == SubSeq(v, 1, k) \o <<e>> \o SubSeq(v, k + 1, Len(v))

Min2(a, b) == IF a <= b THEN a ELSE b

Max2(a, b) == IF a >= b THEN a ELSE b

SetMin(S) == CHOOSE x \in S : \A y \in S : x <= y

SetMax(S) == CHOOSE x \in S : \A y \in S : x >= y

RECURSIVE SeqSum(_)
SeqSum(s) == IF s = <<>> THEN 0 ELSE Head(s) + SeqSum(Tail(s))

\* the elements of a set of integers in increasing order (QMap::keys())
RECURSIVE SortedSeq(_)
SortedSeq(S) ==
    IF S = {} THEN <<>>
    ELSE LET m == CHOOSE x \in S : \A y \in S : x <= y
         IN <<m>> \o SortedSeq(S \ {m})

----------------------------------------------------------------------------
\* QMap<int, int> as a function on a finite set of integers.

EmptyMap == [k \in {} |-> 0]

\* QMap::insert: an existing key gets the new value
MapInsert(m, k, v) == [x \in (DOMAIN m) \cup {k} |-> IF x = k THEN v ELSE m[x]]

\* QMap::keys(): ascending
MapKeys(m) == SortedSeq(DOMAIN m)

\* the map after inserting, for the indices ks in this order, visualIndex -> index
RECURSIVE visualMap(_, _, _)
visualMap(res, ks, m) ==
    IF ks = <<>> THEN m
    ELSE visualMap(res, Tail(ks), MapInsert(m, At(res, Head(ks)).visualIndex, Head(ks)))

\* the integers lo .. hi as an ascending sequence
RangeSeq(lo, hi) == [k \in 1 .. (hi - lo + 1) |-> lo + k - 1]

----------------------------------------------------------------------------
\* The text: one class per UTF-16 code unit.
\*   "A"  a letter; "sp" a collapsible space; "br" a character the line
\*   breaker classifies LINEBREAK_MUSTBREAK.

CharClasses == {"A", "sp", "br"}

\* text.at(k).unicode() in 8234 .. 8238 or 8294 .. 8297: a directional control
isBidiControl(c) == c = "bidi"

\* text.at(k) == QChar::SoftHyphen
isSoftHyphen(c) == c = "shy"

\* lineBreaks[i] == LINEBREAK_MUSTBREAK
isMustBreak(c) == c = "br"

\* text[i].isSpace(), after hard breaks were replaced by QChar::Space
isSpace(c) == c \in {"sp", "br"}

----------------------------------------------------------------------------
\* The tree, in pre-order: node 1 is the root, parent = 0 for the root.
\* Only leaves hold text.

Children(tree, p) == {c \in 1 .. Len(tree) : tree[c].parent = p}

isLeaf(tree, p) == Children(tree, p) = {}

\* the nodes of the subtree of p, p included
RECURSIVE Subtree(_, _)
Subtree(tree, p) ==
    {p} \cup UNION {Subtree(tree, c) : c \in Children(tree, p)}

\* numChars(element, true): the code units of the subtree
numChars(tree, p) ==
    SeqSum([k \in 1 .. Len(tree) |->
                IF k \in Subtree(tree, p) /\ isLeaf(tree, k) THEN Len(tree[k].text) ELSE 0])

\* the value of currentIndex when the traversal enters node p
firstIndex(tree, p) ==
    SeqSum([k \in 1 .. Len(tree) |->
                IF k < p /\ isLeaf(tree, k) THEN Len(tree[k].text) ELSE 0])

\* collectSubChunks + the concatenation of the chunks' text
RECURSIVE collectText(_, _)
collectText(tree, k) ==
    IF k > Len(tree) THEN <<>>
    ELSE (IF isLeaf(tree, k) THEN tree[k].text ELSE <<>>) \o collectText(tree, k + 1)

----------------------------------------------------------------------------
\* CharacterResult as default-constructed (QVector<CharacterResult> result(n)).
\* inkBoundingBox and glyph are the extents along the axis of the ink box and
\* of the outline.

CharacterResult ==
    [addressable |-> TRUE, middle |-> FALSE, hidden |-> FALSE,
     anchored_chunk |-> FALSE, visualIndex |-> NoIndex, plaintTextIndex |-> NoIndex,
     breakType |-> "NoBreak", advance |-> 0, inkBoundingBox |-> 0, glyph |-> 0,
     cssPosition |-> 0, finalPosition |-> 0,
     direction |-> "ltr", anchor |-> "start", rtl |-> FALSE,
     graphemeIndices |-> <<>>, offsets |-> <<>>, textLengthApplied |-> FALSE]

\* relayout, lines 206-225: one entry per code unit of the text; the chunks'
\* newToOldPositions (the identity here: no text-transform) give plaintTextIndex
initResult(text) ==
    [k \in 1 .. Len(text) |-> [CharacterResult EXCEPT !.plaintTextIndex = k - 1]]

\* relayout, lines 290-374 and 456-458: the per-character flags taken from the
\* chunk's properties, and the very first character starts an anchored chunk
setupCharacters(res, text, pr) ==
    [k \in 1 .. Len(res) |->
        [res[k] EXCEPT
            !.anchor = pr.anchor,
            !.direction = pr.direction,
            !.breakType = IF isMustBreak(text[k]) THEN "HardBreak"
                          ELSE IF text[k] = "sp" THEN "SoftBreak" ELSE "NoBreak",
            !.anchored_chunk = (k = 1)]]

\* loadGlyph (KoSvgTextShape_p.h): on success the advance, the ink box and the
\* outline are taken from the glyph and the character is placed at the running
\* total advance
loadGlyph(cr, g, total) ==
    [cr EXCEPT !.advance = g.advance, !.inkBoundingBox = g.advance,
               !.glyph = g.advance, !.cssPosition = total,
               !.offsets = IF g.ligature THEN <<g.advance \div 2>> ELSE <<>>]

\* a loader that is taken to succeed for every glyph
glyphLoadedAlways(g) == TRUE

\* lines 514-522: did loadGlyph succeed for this glyph?
glyphLoaded(g) == g.ok

\* one iteration of the shaping loop, lines 479-531.
\* st = [result, logicalToVisual, total]; i is the glyph's place in glyphs
shapeGlyph(st, g, i) ==
    IF ~At(st.result, g.cluster).addressable THEN st
    ELSE IF ~glyphLoaded(g) THEN st
    ELSE LET charResult == [loadGlyph(At(st.result, g.cluster), g, st.total) EXCEPT
                                !.rtl = g.rtl, !.visualIndex = i, !.middle = FALSE]
         IN [result |-> Put(st.result, g.cluster, charResult),
             logicalToVisual |-> MapInsert(st.logicalToVisual, g.cluster, i),
             total |-> st.total + g.advance]

RECURSIVE shapeFrom(_, _, _)
shapeFrom(st, glyphs, i) ==
    IF i >= Len(glyphs) THEN st
    ELSE shapeFrom(shapeGlyph(st, At(glyphs, i), i), glyphs, i + 1)

\* the shaping loop, lines 472-531
shapeGlyphs(res, glyphs) ==
    shapeFrom([result |-> res, logicalToVisual |-> EmptyMap, total |-> 0], glyphs, 0)

\* a fix-up that marks no character as "middle"
unshapedNever(cr) == FALSE

\* line 539: a character the shaping loop gave no visual index is "middle"
unshaped(cr) == cr.visualIndex = NoIndex

\* one iteration of the fix-up loop, lines 538-572.
\* st = [result, firstCluster]; every code unit ends a grapheme here, so
\* graphemeBreakNext is true from the second iteration on
fixCharacter(st, text, i) ==
    LET r0 == Put(st.result, i, [At(st.result, i) EXCEPT
                                    !.middle = unshaped(At(st.result, i))])
        me == At(r0, i)
        graphemeBreakNext == i > 0
    IN IF me.addressable /\ ~me.middle
       THEN [result |->
                IF me.plaintTextIndex > NoIndex /\ st.firstCluster > NoIndex
                THEN Put(r0, st.firstCluster,
                         [At(r0, st.firstCluster) EXCEPT
                            !.offsets = IF @ # <<>>
                                        THEN Append(@, At(r0, st.firstCluster).advance)
                                        ELSE @,
                            !.graphemeIndices = Append(@, me.plaintTextIndex)])
                ELSE r0,
             firstCluster |-> i]
       ELSE LET fC == Max2(0, st.firstCluster)
                r1 == IF isSpace(At(text, fC)) = isSpace(At(text, i))
                         /\ At(r0, fC).breakType # "HardBreak"
                      THEN Put(r0, fC, [At(r0, fC) EXCEPT !.breakType = me.breakType])
                      ELSE r0
                r2 == IF graphemeBreakNext /\ me.addressable /\ me.plaintTextIndex > NoIndex
                      THEN Put(r1, fC, [At(r1, fC) EXCEPT
                                          !.graphemeIndices = Append(@, me.plaintTextIndex)])
                      ELSE r1
            IN [result |-> Put(r2, i, [At(r2, i) EXCEPT
                                  !.cssPosition = At(r2, fC).cssPosition + At(r2, fC).advance,
                                  !.hidden = TRUE]),
                firstCluster |-> st.firstCluster]

RECURSIVE fixFrom(_, _, _)
fixFrom(st, text, i) ==
    IF i >= Len(st.result) THEN st
    ELSE fixFrom(fixCharacter(st, text, i), text, i + 1)

\* the fix-up loop, lines 536-572: result and the final firstCluster
fixMiddle(res, text) == fixFrom([result |-> res, firstCluster |-> NoIndex], text, 0)

\* lines 573-576: the end of the text closes the last cluster's graphemes
\* (graphemeBreakNext is true after the last code unit)
closeGraphemes(res, fC) ==
    Put(res, fC, [At(res, fC) EXCEPT !.graphemeIndices = Append(@, Len(res))])

\* a layout that never adds the end-of-paragraph entry
needsDummyNever(res, fC) == FALSE

\* lines 580-608: does the layout add the dummy end-of-paragraph entry?
needsDummy(res, fC) == At(res, fC).breakType = "HardBreak"

\* lines 582-604: the dummy entry made from the hard break
dummyFor(hardbreak) ==
    [CharacterResult EXCEPT
        !.addressable = TRUE,
        !.visualIndex = hardbreak.visualIndex + 1,
        !.cssPosition = hardbreak.cssPosition + hardbreak.advance,
        !.finalPosition = hardbreak.cssPosition + hardbreak.advance,
        !.inkBoundingBox = 0,
        !.advance = 0,
        !.plaintTextIndex = hardbreak.graphemeIndices[Len(hardbreak.graphemeIndices)],
        !.rtl = hardbreak.rtl,
        !.direction = hardbreak.direction]

\* lines 580-608: result and logicalToVisual with the dummy inserted at fC + 1
insertDummy(res, l2v, fC) ==
    IF needsDummy(res, fC)
    THEN LET dummy == dummyFor(At(res, fC))
         IN [result |-> InsertAt(res, fC + 1, dummy),
             logicalToVisual |-> MapInsert(l2v, fC + 1, dummy.visualIndex),
             dummyIndex |-> fC + 1]
    ELSE [result |-> res, logicalToVisual |-> l2v, dummyIndex |-> NoIndex]

----------------------------------------------------------------------------
\* Resolved transforms (KoSvgText::CharTransformation): xPos, yPos and dxPos
\* are optional.  The text of relayout is horizontal in this model, so x and dx
\* run along the axis.

NoValue == [has |-> FALSE, v |-> 0]

Value(x) == [has |-> TRUE, v |-> x]

CharTransformation == [xPos |-> NoValue, yPos |-> NoValue, dxPos |-> NoValue]

\* CharTransformation::startsNewChunk
startsNewChunk(t) == t.xPos.has

\* relayout, lines 237-243: one default transform per code unit, the first
\* one positioned at the origin
initTransforms(n) ==
    [k \in 1 .. n |-> IF k = 1
                      THEN [CharTransformation EXCEPT !.xPos = Value(0), !.yPos = Value(0)]
                      ELSE CharTransformation]

\* CharTransformation::mergeInParentTransformation: what the node leaves unset
\* is taken from what the ancestors resolved
mergeInParentTransformation(own, parent) ==
    [xPos |-> IF own.xPos.has THEN own.xPos ELSE parent.xPos,
     yPos |-> IF own.yPos.has THEN own.yPos ELSE parent.yPos,
     dxPos |-> IF own.dxPos.has THEN own.dxPos ELSE parent.dxPos]

\* resolveTransforms, lines 837-862: character k in the loop of a node that is
\* no text path.  st = [result, resolved, i], i counting the node's own
\* transforms used so far
resolveCharacter(st, local, text, k, wrapped, collapsedChars) ==
    IF collapsedChars[k + 1] \/ (isBidiControl(At(text, k)) /\ ~wrapped)
          \/ isSoftHyphen(At(text, k))
    THEN [result |-> Put(st.result, k, [At(st.result, k) EXCEPT !.addressable = FALSE]),
          resolved |-> st.resolved, i |-> st.i]
    ELSE IF st.i < Len(local)
    THEN [result |-> st.result,
          resolved |-> Put(st.resolved, k,
                           mergeInParentTransformation(At(local, st.i), At(st.resolved, k))),
          i |-> st.i + 1]
    ELSE st

RECURSIVE resolveOwn(_, _, _, _, _, _, _)
resolveOwn(st, local, text, k, j, wrapped, collapsedChars) ==
    IF k >= j THEN st
    ELSE resolveOwn(resolveCharacter(st, local, text, k, wrapped, collapsedChars),
                    local, text, k + 1, j, wrapped, collapsedChars)

\* a text path that leaves the coordinates of its characters as they are
resolvePathCharacterAsIs(st, k, isHorizontal) == st

\* lines 873-895: character k in the loop of a node that is a text path.
\* st = [result, resolved, first]
resolvePathCharacter(st, k, isHorizontal) ==
    IF ~At(st.result, k).addressable THEN st
    ELSE [result |-> st.result,
          resolved |-> Put(st.resolved, k,
              [xPos |-> IF isHorizontal
                        THEN (IF st.first THEN Value(0) ELSE At(st.resolved, k).xPos)
                        ELSE NoValue,
               yPos |-> IF isHorizontal THEN NoValue
                        ELSE (IF st.first THEN Value(0) ELSE At(st.resolved, k).yPos),
               dxPos |-> At(st.resolved, k).dxPos]),
          first |-> FALSE]

RECURSIVE resolvePath(_, _, _, _)
resolvePath(st, k, j, isHorizontal) ==
    IF k >= j THEN st
    ELSE resolvePath(resolvePathCharacter(st, k, isHorizontal), k + 1, j, isHorizontal)

\* resolveTransforms, lines 825-900: the node's own loop (skipped for a text
\* path), the children (called with wrapped = false, line 866), and the loop
\* of a text path.  st = [result, resolved]
RECURSIVE resolveTransforms(_, _, _, _, _, _, _)
RECURSIVE resolveChildren(_, _, _, _, _, _)
resolveChildren(tree, kids, text, st, isHorizontal, collapsedChars) ==
    IF kids = <<>> THEN st
    ELSE resolveChildren(tree, Tail(kids), text,
             resolveTransforms(tree, Head(kids), text, st, isHorizontal, FALSE,
                               collapsedChars),
             isHorizontal, collapsedChars)

\* result and resolved, the two arrays resolveTransforms works on
resolvedOf(st) == [result |-> st.result, resolved |-> st.resolved]

\* lines 870-899: the loop of a text path, after the children
resolveEnd(tree, p, kids, isHorizontal) ==
    resolvedOf(
        IF tree[p].textPath
        THEN resolvePath([result |-> kids.result, resolved |-> kids.resolved, first |-> TRUE],
                         firstIndex(tree, p), firstIndex(tree, p) + numChars(tree, p),
                         isHorizontal)
        ELSE kids)

\* lines 865-899: what follows the node's own loop
resolveRest(tree, p, text, own, isHorizontal, collapsedChars) ==
    resolveEnd(tree, p,
               resolveChildren(tree, SortedSeq(Children(tree, p)), text, own, isHorizontal,
                               collapsedChars),
               isHorizontal)

resolveTransforms(tree, p, text, st, isHorizontal, wrapped, collapsedChars) ==
    resolveRest(tree, p, text,
        IF tree[p].textPath THEN st
        ELSE resolveOwn([result |-> st.result, resolved |-> st.resolved, i |-> 0],
                        tree[p].localTransformations, text, firstIndex(tree, p),
                        firstIndex(tree, p) + numChars(tree, p), wrapped, collapsedChars),
        isHorizontal, collapsedChars)

----------------------------------------------------------------------------
\* 4. Adjust positions: dx, dy (relayout, lines 633-661).
\* st = [result, shift, setAnchoredChunk]

dxdyCharacter(st, resolved, i) ==
    IF ~At(st.result, i).addressable THEN st
    ELSE LET transform == At(resolved, i)
             shift == IF transform.dxPos.has THEN st.shift + transform.dxPos.v
                      ELSE st.shift
             cr0 == [At(st.result, i) EXCEPT
                        !.finalPosition = At(st.result, i).cssPosition + shift]
             cr1 == IF st.setAnchoredChunk THEN [cr0 EXCEPT !.anchored_chunk = TRUE]
                    ELSE cr0
             cr2 == IF startsNewChunk(transform) /\ ~cr1.middle
                    THEN [cr1 EXCEPT !.anchored_chunk = TRUE] ELSE cr1
         IN [result |-> Put(st.result, i, cr2),
             shift |-> shift,
             setAnchoredChunk |-> startsNewChunk(transform) /\ cr1.middle]

RECURSIVE dxdyFrom(_, _, _)
dxdyFrom(st, resolved, i) ==
    IF i >= Len(st.result) THEN st
    ELSE dxdyFrom(dxdyCharacter(st, resolved, i), resolved, i + 1)

adjustDxDy(res, resolved) ==
    dxdyFrom([result |-> res, shift |-> 0, setAnchoredChunk |-> FALSE], resolved, 0).result

----------------------------------------------------------------------------
\* 5. Apply textLength (applyTextLength, lines 903-1013).

\* qreal division: a zero divisor gives a non-finite value
Divide(x, n) == IF n = 0 THEN NonFinite ELSE x \div n

\* an extent loop that counts every addressable character, stretched or not
extentStepCountsAll(st, res, i, k) ==
    IF ~At(res, k).addressable THEN st
    ELSE LET lo == Min2(At(res, k).finalPosition, At(res, k).finalPosition + At(res, k).advance)
             hi == Max2(At(res, k).finalPosition, At(res, k).finalPosition + At(res, k).advance)
         IN [a |-> IF k = i THEN lo ELSE Min2(st.a, lo),
             b |-> IF k = i THEN hi ELSE Max2(st.b, hi),
             n |-> st.n + 1]

\* lines 922-949: the extent [a, b] of the node's addressable characters and
\* the count n of those not yet stretched.  st = [a, b, n]
extentStep(st, res, i, k) ==
    IF ~At(res, k).addressable THEN st
    ELSE LET pos == At(res, k).finalPosition
             advance == At(res, k).advance
             lo == Min2(pos, pos + advance)
             hi == Max2(pos, pos + advance)
         IN [a |-> IF k = i THEN lo ELSE Min2(st.a, lo),
             b |-> IF k = i THEN hi ELSE Max2(st.b, hi),
             n |-> IF At(res, k).textLengthApplied THEN st.n ELSE st.n + 1]

RECURSIVE extentFrom(_, _, _, _, _)
extentFrom(st, res, i, j, k) ==
    IF k >= j THEN st ELSE extentFrom(extentStep(st, res, i, k), res, i, j, k + 1)

nodeExtent(res, i, j) == extentFrom([a |-> 0, b |-> 0, n |-> 0], res, i, j, i)

\* lines 925-929: visual index -> index, for the node's shaped addressable characters
nodeVisualToLogical(res, i, j) ==
    visualMap(res,
              SelectSeq(RangeSeq(i, j - 1),
                        LAMBDA k : At(res, k).addressable /\ At(res, k).visualIndex > NoIndex),
              EmptyMap)

\* lines 965-974: spacing-and-glyphs scales the outline, the advance and the ink box
scaleBy(x, advance, d) ==
    IF d = 0 THEN x
    ELSE IF advance = 0 THEN NonFinite
    ELSE (x * (advance + d)) \div advance

\* lines 961-984: one character of the node, in visual order.
\* st = [result, shift, secondTextLengthApplied]
stretchStep(st, v2l, keys, d, spacingAndGlyphs, key) ==
    LET idx == v2l[key]
        cr == At(st.result, idx)
        moved == [cr EXCEPT !.finalPosition = @ + st.shift]
        scaled == IF spacingAndGlyphs
                  THEN [moved EXCEPT !.glyph = scaleBy(@, cr.advance, d),
                                     !.advance = scaleBy(@, cr.advance, d),
                                     !.inkBoundingBox = scaleBy(@, cr.advance, d)]
                  ELSE moved
        last == IF spacingAndGlyphs THEN FALSE ELSE key = keys[Len(keys)]
        grow == ~(cr.textLengthApplied /\ st.secondTextLengthApplied) /\ ~last
    IN IF ~cr.addressable THEN st
       ELSE [result |-> Put(st.result, idx, [scaled EXCEPT !.textLengthApplied = TRUE]),
             shift |-> IF grow THEN st.shift + d ELSE st.shift,
             secondTextLengthApplied |-> cr.textLengthApplied]

RECURSIVE stretchFrom(_, _, _, _, _, _)
stretchFrom(st, v2l, keys, d, spacingAndGlyphs, n) ==
    IF n > Len(keys) THEN st
    ELSE stretchFrom(stretchStep(st, v2l, keys, d, spacingAndGlyphs, keys[n]),
                     v2l, keys, d, spacingAndGlyphs, n + 1)

\* lines 992-1004: the characters after the node up to the next anchored chunk,
\* and those from the node's first character back to its anchored-chunk start
\* a forward loop that runs to the end of the text
forwardToEnd(res, k) == RangeSeq(k, Len(res) - 1)

RECURSIVE forwardUntilChunk(_, _)
forwardUntilChunk(res, k) ==
    IF k >= Len(res) \/ At(res, k).anchored_chunk THEN <<>>
    ELSE <<k>> \o forwardUntilChunk(res, k + 1)

RECURSIVE backwardToChunk(_, _)
backwardToChunk(res, k) ==
    IF k < 0 THEN <<>>
    ELSE IF At(res, k).anchored_chunk THEN <<k>>
    ELSE <<k>> \o backwardToChunk(res, k - 1)

\* lines 987-1009: the accumulated shift moves what comes visually after the node
propagateShift(res, i, j, lastVisualValue, shift) ==
    LET v2l == visualMap(res, forwardUntilChunk(res, j) \o backwardToChunk(res, i), EmptyMap)
        hit == {v2l[k] : k \in {x \in DOMAIN v2l : x > lastVisualValue}}
    IN [k \in 1 .. Len(res) |->
          IF (k - 1) \in hit THEN [res[k] EXCEPT !.finalPosition = @ + shift] ELSE res[k]]

\* lines 920-1010: the node's own textLength, its children being done.
\* st = [result, resolved, div0, noLast, applied]: resolved counts the children
\* that had a textLength; div0 and noLast record a division by zero (line 957)
\* and keys().last() of an empty list (line 989); applied lists, in the order
\* of application, what each node with textLength computed and did
applyOwnTextLength(tree, p, st, resolvedDescendentNodes) ==
    LET i == firstIndex(tree, p)
        j == i + numChars(tree, p)
        res == st.result
        v2l == nodeVisualToLogical(res, i, j)
        keys == MapKeys(v2l)
        ext == nodeExtent(res, i, j)
        spacingAndGlyphs == tree[p].lengthAdjust = "spacingAndGlyphs"
        n == ext.n + st.resolved - (IF spacingAndGlyphs THEN 0 ELSE 1)
        delta == tree[p].textLength - (ext.b - ext.a)
        d == Divide(delta, n)
        done == stretchFrom([result |-> res, shift |-> 0, secondTextLengthApplied |-> FALSE],
                            v2l, keys, d, spacingAndGlyphs, 1)
        after == IF keys = <<>> THEN res
                 ELSE propagateShift(done.result, i, j, keys[Len(keys)], done.shift)
    IN [result |-> after,
        resolved |-> resolvedDescendentNodes + 1,
        div0 |-> st.div0 \/ n = 0,
        noLast |-> st.noLast \/ keys = <<>>,
        applied |-> Append(st.applied,
                           [node |-> p, i |-> i, j |-> j, n |-> n, delta |-> delta,
                            shift |-> done.shift, before |-> res, after |-> after])]

\* the textLength attribute: -1 stands for "auto"
hasTextLength(node) == node.textLength >= 0

\* applyTextLength: children first, then the node itself.
\* acc = [result, resolved, div0, noLast, applied], resolved being the caller's
\* resolvedDescendentNodes
RECURSIVE applyTextLength(_, _, _)
RECURSIVE applyTextLengthChildren(_, _, _)
applyTextLengthChildren(tree, kids, acc) ==
    IF kids = <<>> THEN acc
    ELSE applyTextLengthChildren(tree, Tail(kids), applyTextLength(tree, Head(kids), acc))

applyTextLength(tree, p, acc) ==
    LET kidsDone == applyTextLengthChildren(tree, SortedSeq(Children(tree, p)),
                                            [acc EXCEPT !.resolved = 0])
    IN IF hasTextLength(tree[p])
       THEN applyOwnTextLength(tree, p, kidsDone, acc.resolved)
       ELSE [kidsDone EXCEPT !.resolved = acc.resolved]

----------------------------------------------------------------------------
\* 6. Adjust positions: x, y (relayout, lines 672-692).  st = [result, shift]

xyCharacter(st, resolved, i) ==
    IF ~At(st.result, i).addressable THEN st
    ELSE LET transform == At(resolved, i)
             cr == At(st.result, i)
             delta == IF transform.dxPos.has THEN transform.dxPos.v ELSE 0
             shift == IF transform.xPos.has
                      THEN transform.xPos.v + (delta - cr.finalPosition)
                      ELSE st.shift
             pos == IF cr.middle /\ i - 1 >= 0 THEN At(st.result, i - 1).finalPosition
                    ELSE cr.finalPosition + shift
         IN [result |-> Put(st.result, i, [cr EXCEPT !.finalPosition = pos]),
             shift |-> shift]

RECURSIVE xyFrom(_, _, _)
xyFrom(st, resolved, i) ==
    IF i >= Len(st.result) THEN st
    ELSE xyFrom(xyCharacter(st, resolved, i), resolved, i + 1)

adjustXY(res, resolved) == xyFrom([result |-> res, shift |-> 0], resolved, 0).result

----------------------------------------------------------------------------
\* 7. Apply anchoring (applyAnchoring, lines 1516-1563).

\* lines 1524-1541: scan from start.  st = [a, b, i, stop]; the loop ends at the
\* next addressable anchored chunk start after start, or at the end
anchorScanStep(st, res, start) ==
    LET cr == At(res, st.i)
        pos == cr.finalPosition
        lo == Min2(pos, pos + cr.advance)
        hi == Max2(pos, pos + cr.advance)
    IN IF ~cr.addressable THEN [st EXCEPT !.i = @ + 1]
       ELSE IF cr.anchored_chunk /\ st.i > start THEN [st EXCEPT !.stop = TRUE]
       ELSE [a |-> IF cr.anchored_chunk THEN lo ELSE Min2(st.a, lo),
             b |-> IF cr.anchored_chunk THEN hi ELSE Max2(st.b, hi),
             i |-> st.i + 1,
             stop |-> FALSE]

RECURSIVE anchorScan(_, _, _)
anchorScan(st, res, start) ==
    IF st.stop \/ st.i >= Len(res) THEN st
    ELSE anchorScan(anchorScanStep(st, res, start), res, start)

\* lines 1543-1554: how far the chunk starting at start moves
anchorShift(first, a, b) ==
    LET rtl == first.direction = "rtl"
        shift == first.finalPosition
    IN IF (first.anchor = "start" /\ ~rtl) \/ (first.anchor = "end" /\ rtl)
       THEN shift - a
       ELSE IF (first.anchor = "end" /\ ~rtl) \/ (first.anchor = "start" /\ rtl)
       THEN shift - b
       ELSE shift - ((a + b) \div 2)

RECURSIVE anchorFrom(_, _)
anchorFrom(res, start) ==
    IF start >= Len(res) THEN res
    ELSE LET scan == anchorScan([a |-> 0, b |-> 0, i |-> start, stop |-> FALSE], res, start)
             shift == anchorShift(At(res, start), scan.a, scan.b)
             moved == [k \in 1 .. Len(res) |->
                          IF k - 1 >= start /\ k - 1 < scan.i
                          THEN [res[k] EXCEPT !.finalPosition = @ + shift]
                          ELSE res[k]]
         IN anchorFrom(moved, scan.i)

applyAnchoring(res) == anchorFrom(res, 0)

----------------------------------------------------------------------------
\* 8. Position on path: characterResultOnPath, lines 1566-1601.

\* C fmod for a positive divisor: the result has the sign of x
fmod(x, y) == IF x >= 0 THEN x % y ELSE 0 - ((0 - x) % y)

\* the character's middle before wrapping, line 1573
pathMid(cr, offset) == cr.finalPosition + (cr.advance \div 2) + offset

\* lines 1577-1599: does the character get hidden?
pathHides(cr, length, offset, isClosed) ==
    LET rtl == cr.direction = "rtl"
        mid == pathMid(cr, offset)
    IN IF isClosed
       THEN IF (cr.anchor = "start" /\ ~rtl) \/ (cr.anchor = "end" /\ rtl)
            THEN mid - offset < 0 \/ mid - offset > length
            ELSE IF (cr.anchor = "end" /\ ~rtl) \/ (cr.anchor = "start" /\ rtl)
            THEN mid - offset < 0 - length \/ mid - offset > 0
            ELSE mid - offset < 0 - (length \div 2) \/ mid - offset > length \div 2
       ELSE mid < 0 \/ mid > length

\* lines 1591-1594: a closed path wraps the middle
pathWrap(mid, length) == fmod(IF mid < 0 THEN mid + length ELSE mid, length)

\* characterResultOnPath: the character (hidden or not) and the returned position
characterResultOnPath(cr, length, offset, isClosed) ==
    [cr |-> [cr EXCEPT !.hidden = @ \/ pathHides(cr, length, offset, isClosed)],
     mid |-> IF isClosed THEN pathWrap(pathMid(cr, offset), length)
             ELSE pathMid(cr, offset)]

\* applyTextPath (lines 1645-1744).  A path is taken to be a straight line
\* along the axis: path = [origin, length, offset, isClosed], offset being the
\* start offset in user units.

\* path.pointAtPercent(path.percentAtLength(len)): the length is kept within
\* the path
pointAtLength(path, len) == path.origin + Max2(0, Min2(len, path.length))

\* lines 1682-1720: one character of a path element
pathCharacter(cr, path) ==
    IF cr.middle THEN cr
    ELSE IF characterResultOnPath(cr, path.length, path.offset, path.isClosed).cr.hidden
    THEN characterResultOnPath(cr, path.length, path.offset, path.isClosed).cr
    ELSE [cr EXCEPT
            !.finalPosition =
                pointAtLength(path, characterResultOnPath(cr, path.length, path.offset,
                                                          path.isClosed).mid)
                   - (cr.advance \div 2)]

\* lines 1732-1740: one character of an element that follows a path.
\* st = [result, inPath, afterPath, pathEnd, startPos]
afterPathCharacter(st, i) ==
    IF At(st.result, i).anchored_chunk THEN [st EXCEPT !.afterPath = FALSE]
    ELSE [st EXCEPT !.result = Put(st.result, i,
                                   [At(st.result, i) EXCEPT !.finalPosition = @ + st.pathEnd])]

RECURSIVE afterPathFrom(_, _, _)
afterPathFrom(st, i, endIndex) ==
    IF i >= endIndex THEN st
    ELSE afterPathFrom(afterPathCharacter(st, i), i + 1, endIndex)

\* lines 1725-1741: an element without a path; the first one after a path
\* turns pathEnd into the distance from its first character to the path's end
leavePath(st, currentIndex) ==
    IF st.inPath
    THEN [st EXCEPT !.inPath = FALSE, !.afterPath = TRUE,
                    !.pathEnd = @ - At(st.result, currentIndex).finalPosition]
    ELSE st

afterPathElement(st, currentIndex, endIndex) ==
    IF st.afterPath THEN afterPathFrom(st, currentIndex, endIndex) ELSE st

\* lines 1658-1722: an element with a path
pathElement(st, path, currentIndex, endIndex, isFirst) ==
    [result |-> [k \in 1 .. Len(st.result) |->
                   IF k - 1 >= currentIndex /\ k - 1 < endIndex
                   THEN pathCharacter(st.result[k], path) ELSE st.result[k]],
     inPath |-> TRUE,
     afterPath |-> st.afterPath,
     pathEnd |-> path.origin + path.length,
     startPos |-> IF isFirst THEN pointAtLength(path, path.offset) ELSE st.startPos]

\* lines 1656-1743: the elements of the top level, one after the other
RECURSIVE textPathFrom(_, _, _, _)
textPathFrom(st, tree, kids, path) ==
    IF kids = <<>> THEN st
    ELSE textPathFrom(
            IF tree[Head(kids)].textPath
            THEN pathElement(st, path, firstIndex(tree, Head(kids)),
                             firstIndex(tree, Head(kids)) + numChars(tree, Head(kids)),
                             Head(kids) = 2)
            ELSE afterPathElement(leavePath(st, firstIndex(tree, Head(kids))),
                                  firstIndex(tree, Head(kids)),
                                  firstIndex(tree, Head(kids)) + numChars(tree, Head(kids))),
            tree, Tail(kids), path)

applyTextPath(tree, res, path, startPos) ==
    textPathFrom([result |-> res, inPath |-> FALSE, afterPath |-> FALSE, pathEnd |-> 0,
                  startPos |-> startPos],
                 tree, SortedSeq(Children(tree, 1)), path)

----------------------------------------------------------------------------
\* Line boxes.  A LineBox is a sequence of chunks, a chunk the sequence of its
\* character indices (LineChunk::chunkIndices).

\* breakLines (KoSvgTextShapeLayoutFunc): the characters of logicalToVisual in
\* logical order, a new line after every hard break.  st = [lines, current]
breakStep(st, res, k) ==
    IF At(res, k).breakType = "HardBreak"
    THEN [lines |-> Append(st.lines, <<Append(st.current, k)>>), current |-> <<>>]
    ELSE [lines |-> st.lines, current |-> Append(st.current, k)]

RECURSIVE breakFrom(_, _, _)
breakFrom(st, res, ks) ==
    IF ks = <<>>
    THEN IF st.current = <<>> THEN st.lines ELSE Append(st.lines, <<st.current>>)
    ELSE breakFrom(breakStep(st, res, Head(ks)), res, Tail(ks))

\* the line boxes, and the result with the first character of every line
\* starting an anchored chunk
breakLines(res, logicalToVisual) ==
    LET lines == breakFrom([lines |-> <<>>, current |-> <<>>], res, MapKeys(logicalToVisual))
        firsts == {lines[n][1][1] : n \in 1 .. Len(lines)}
    IN [lineBoxes |-> lines,
        result |-> [k \in 1 .. Len(res) |->
                      IF (k - 1) \in firsts THEN [res[k] EXCEPT !.anchored_chunk = TRUE]
                      ELSE res[k]]]

\* handleLineBoxAlignment, lines 1192-1197: every node sets finalPosition to
\* cssPosition for its characters; the nodes cover the indices below numChars
\* of the root (the shift is across the axis)
handleLineBoxAlignment(res, n) ==
    [k \in 1 .. Len(res) |->
        IF k <= n THEN [res[k] EXCEPT !.finalPosition = res[k].cssPosition] ELSE res[k]]

----------------------------------------------------------------------------
\* Per-node output: associatedOutline (the rectangles added, in order),
\* textDecorations (the runs of the decoration path), and whether
\* computeFontMetrics has set the decoration widths and offsets.

NodeOut == [associatedOutline |-> <<>>, textDecorations |-> <<>>, metrics |-> FALSE]

\* a relayout that keeps the outlines and decorations of the call before
keepAssociatedOutlines(out) == out

\* clearAssociatedOutlines, lines 813-819
clearAssociatedOutlines(out) ==
    [p \in 1 .. Len(out) |-> [out[p] EXCEPT !.associatedOutline = <<>>,
                                            !.textDecorations = <<>>]]

\* computeFontMetrics, lines 1092-1103: every node gets its decoration widths
\* and offsets from the font (QMap::insert replaces what a former call left)
computeFontMetrics(out) == [p \in 1 .. Len(out) |-> [out[p] EXCEPT !.metrics = TRUE]]

\* generateDecorationPaths, lines 1351-1383: the runs of a node, a new run at
\* every anchored chunk start.  st = [runs, rect] with rect = <<>> (null) or <<lo, hi>>
decorationStep(st, cr) ==
    IF cr.hidden \/ ~cr.addressable THEN st
    ELSE LET lo == Min2(cr.finalPosition, cr.finalPosition + cr.advance)
             hi == Max2(cr.finalPosition, cr.finalPosition + cr.advance)
             opened == IF cr.anchored_chunk
                       THEN [runs |-> Append(st.runs, st.rect), rect |-> <<>>]
                       ELSE st
         IN [runs |-> opened.runs,
             rect |-> IF opened.rect = <<>> THEN <<lo, hi>>
                      ELSE <<Min2(opened.rect[1], lo), Max2(opened.rect[2], hi)>>]

RECURSIVE decorationFrom(_, _, _, _)
decorationFrom(st, res, k, j) ==
    IF k >= j THEN Append(st.runs, st.rect)
    ELSE decorationFrom(decorationStep(st, At(res, k)), res, k + 1, j)

\* the non-empty runs of the node's decoration path
generateDecorationPaths(res, i, j) ==
    SelectSeq(decorationFrom([runs |-> <<>>, rect |-> <<>>], res, i, j),
              LAMBDA r : r # <<>>)

\* computeTextDecorations, lines 1209-1301: every node with a text-decoration
\* gets its path
computeTextDecorations(tree, out, res) ==
    [p \in 1 .. Len(out) |->
        IF tree[p].decoration
        THEN [out[p] EXCEPT !.textDecorations =
                 generateDecorationPaths(res, firstIndex(tree, p),
                     Min2(firstIndex(tree, p) + numChars(tree, p), Len(res)))]
        ELSE out[p]]

----------------------------------------------------------------------------
\* 9. Cursor positions (relayout, lines 738-805).

CursorPos(cluster, index, offset, synthetic) ==
    [cluster |-> cluster, index |-> index, offset |-> offset, synthetic |-> synthetic]

\* lines 760-772: the positions of the graphemes of character i
RECURSIVE graphemePositions(_, _, _, _)
graphemePositions(cr, i, insertFirst, k) ==
    IF k >= Len(cr.graphemeIndices) THEN <<>>
    ELSE (IF cr.breakType = "HardBreak" /\ k + 1 = Len(cr.graphemeIndices) THEN <<>>
          ELSE <<CursorPos(i, At(cr.graphemeIndices, k),
                           IF insertFirst THEN k + 1 ELSE k, FALSE)>>)
         \o graphemePositions(cr, i, insertFirst, k + 1)

\* a synthetic position that takes the offset of the character before
characterCursorPosFromBefore(cr, i) ==
    IF cr.addressable /\ ~cr.middle /\ cr.plaintTextIndex > NoIndex
    THEN (IF cr.anchored_chunk
          THEN <<CursorPos(i, Max2(0, cr.plaintTextIndex - 1), 0, TRUE)>> ELSE <<>>)
         \o graphemePositions(cr, i, cr.anchored_chunk, 0)
    ELSE <<>>

\* lines 742-779: the cursor positions of character i
characterCursorPos(cr, i) ==
    IF cr.addressable /\ ~cr.middle /\ cr.plaintTextIndex > NoIndex
    THEN (IF cr.anchored_chunk THEN <<CursorPos(i, cr.plaintTextIndex, 0, TRUE)>> ELSE <<>>)
         \o graphemePositions(cr, i, cr.anchored_chunk, 0)
    ELSE <<>>

\* lines 739-789: the chunks cover the indices below the length of the text
RECURSIVE collectCursorPos(_, _, _)
collectCursorPos(res, i, n) ==
    IF i >= n THEN <<>>
    ELSE characterCursorPos(At(res, i), i) \o collectCursorPos(res, i + 1, n)

\* lines 791-805: the cursor position of the dummy entry
dummyCursorPos(res, dummyIndex) ==
    IF dummyIndex > NoIndex /\ dummyIndex < Len(res) /\ At(res, dummyIndex).anchored_chunk
    THEN <<CursorPos(dummyIndex, At(res, dummyIndex).plaintTextIndex, 0, TRUE)>>
    ELSE <<>>

\* lines 752-771: the caret offsets that go with the positions of a character
caretOffsets(cr) ==
    LET graphemes == Len(cr.graphemeIndices)
        kept == SelectSeq(RangeSeq(0, graphemes - 1),
                          LAMBDA k : ~(cr.breakType = "HardBreak" /\ k + 1 = graphemes))
        offset(k) == (k + 1) * (cr.advance \div graphemes)
    IN (IF cr.anchored_chunk THEN <<IF cr.rtl THEN cr.advance ELSE 0>> ELSE <<>>)
       \o [x \in 1 .. Len(kept) |->
              IF cr.rtl THEN cr.advance - offset(kept[x]) ELSE offset(kept[x])]

\* lines 752-778: what the loop writes back into a character it gave positions
characterWriteBack(cr, positions) ==
    LET held == IF cr.anchored_chunk THEN <<positions[1]>> \o cr.offsets ELSE cr.offsets
    IN [cr EXCEPT
          !.graphemeIndices = IF cr.anchored_chunk THEN <<cr.plaintTextIndex>> \o @ ELSE @,
          !.offsets = IF Len(held) < Len(positions) THEN positions ELSE held]

\* lines 742-779 and 796-797: what the cursor pass writes back into the characters
cursorWriteBack(res, n, dummyIndex) ==
    [k \in 1 .. Len(res) |->
        LET cr == res[k]
            first == IF k <= n /\ cr.addressable /\ ~cr.middle
                        /\ cr.plaintTextIndex > NoIndex
                     THEN characterWriteBack(cr, caretOffsets(cr))
                     ELSE cr
        IN IF k - 1 = dummyIndex /\ cr.anchored_chunk
           THEN [first EXCEPT !.plaintTextIndex = @ - 1, !.offsets = <<0>> \o @]
           ELSE first]

\* lines 782-785 and 801-803: the rectangles added to the outline of leaf p
RECURSIVE outlineRects(_, _, _)
outlineRects(res, k, j) ==
    IF k >= j THEN <<>>
    ELSE (IF At(res, k).addressable /\ ~At(res, k).middle /\ ~At(res, k).hidden
          THEN <<[pos |-> At(res, k).finalPosition, width |-> At(res, k).inkBoundingBox]>>
          ELSE <<>>)
         \o outlineRects(res, k + 1, j)

lastLeaf(tree) == CHOOSE p \in 1 .. Len(tree) :
                     isLeaf(tree, p) /\ \A q \in 1 .. Len(tree) : isLeaf(tree, q) => q <= p

addOutlines(tree, out, res, dummyIndex) ==
    [p \in 1 .. Len(out) |->
        IF ~isLeaf(tree, p) THEN out[p]
        ELSE [out[p] EXCEPT !.associatedOutline =
                @ \o outlineRects(res, firstIndex(tree, p),
                                  firstIndex(tree, p) + Len(tree[p].text))
                  \o (IF p = lastLeaf(tree) /\ dummyCursorPos(res, dummyIndex) # <<>>
                      THEN <<[pos |-> At(res, dummyIndex).finalPosition,
                              width |-> At(res, dummyIndex).inkBoundingBox]>>
                      ELSE <<>>)]]

----------------------------------------------------------------------------
\* logicalToVisualCursorPositions, lines 55-93.

\* lines 68-77: the cursor positions of cluster j in visual order
clusterVisual(cursor, res, j) ==
    LET ks == SelectSeq(RangeSeq(0, Len(cursor) - 1), LAMBDA k : At(cursor, k).cluster = j)
        relevant == [o \in {At(cursor, k).offset : k \in {ks[x] : x \in DOMAIN ks}} |->
                        CHOOSE k \in {ks[x] : x \in DOMAIN ks} :
                            /\ At(cursor, k).offset = o
                            /\ \A k2 \in {ks[x] : x \in DOMAIN ks} :
                                  At(cursor, k2).offset = o => k2 <= k]
        keys == MapKeys(relevant)
        size == Len(keys)
    IN [n \in 1 .. size |->
          LET final == IF At(res, j).rtl THEN size - 1 - keys[n] ELSE keys[n]
          IN IF final \in DOMAIN relevant THEN relevant[final] ELSE 0]

RECURSIVE concatAll(_)
concatAll(ss) == IF ss = <<>> THEN <<>> ELSE Head(ss) \o concatAll(Tail(ss))

\* lines 62-78: the cursor positions of a chunk in visual order
chunkVisual(cursor, res, chunkIndices) ==
    LET visualToLogical == visualMap(res, chunkIndices, EmptyMap)
        keys == MapKeys(visualToLogical)
    IN concatAll([n \in 1 .. Len(keys) |-> clusterVisual(cursor, res, visualToLogical[keys[n]])])

\* lines 80-88: number the positions of a chunk
RECURSIVE numberVisual(_, _)
numberVisual(m, visual) ==
    IF visual = <<>> THEN m
    ELSE numberVisual(MapInsert(m, Head(visual), Cardinality(DOMAIN m)), Tail(visual))

Reverse(v) == [k \in 1 .. Len(v) |-> v[Len(v) + 1 - k]]

RECURSIVE numberChunks(_, _, _, _, _)
numberChunks(m, cursor, res, chunks, ltr) ==
    IF chunks = <<>> THEN m
    ELSE LET visual == chunkVisual(cursor, res, Head(chunks))
         IN numberChunks(numberVisual(m, IF ltr THEN visual ELSE Reverse(visual)),
                         cursor, res, Tail(chunks), ltr)

logicalToVisualCursorPositions(cursor, res, lines, ltr) ==
    numberChunks(EmptyMap, cursor, res, concatAll(lines), ltr)

----------------------------------------------------------------------------
\* relayout (lines 97-811), the whole call.

\* what a call that returned early leaves in trace
NoTrace ==
    [text |-> <<>>, initial |-> <<>>, shaped |-> <<>>, fixed |-> <<>>,
     shapedMap |-> EmptyMap, logicalToVisual |-> EmptyMap,
     firstCluster |-> NoIndex, dummyIndex |-> NoIndex,
     positioned |-> <<>>, ltr |-> TRUE, returned |-> "none"]

\* line 468: raqm_get_glyphs returned no glyph array
glyphsMissing(glyphs) == glyphs.null

\* lines 629-719: the position passes of an unwrapped text (there is no text
\* path in the trees of this model), the decorations computed after anchoring
positionPasses(tree, res, resolved, wrapped) ==
    IF wrapped THEN res
    ELSE LET shifted == adjustDxDy(res, resolved)
             stretched == applyTextLength(tree, 1,
                              [result |-> shifted, resolved |-> 0,
                               div0 |-> FALSE, noLast |-> FALSE, applied |-> <<>>]).result
         IN applyAnchoring(adjustXY(stretched, resolved))

\* the values a call returns with; lineBoxes is assigned only at lines 618-623
relayoutReturn(how, res, cursor, lines, out, flt, tr) ==
    [returned |-> how, result |-> res, cursorPos |-> cursor,
     logicalToVisualCursorPos |-> IF how = "done"
                                  THEN logicalToVisualCursorPositions(cursor, res, lines,
                                                                      tr.ltr)
                                  ELSE EmptyMap,
     lineBoxes |-> lines, nodeOut |-> out, fault |-> flt,
     trace |-> [tr EXCEPT !.returned = how]]

\* c = [tree, pr, text, initial, shaped, out, resolved]: what relayout has at
\* hand after the shaping loop (resolved = resolvedTransforms).

\* lines 694-811: decorations, cursor positions and outlines of the positioned
\* characters, and what the call stores
finishLayout(c, fixed, dum, lines, positioned) ==
    relayoutReturn("done",
        cursorWriteBack(positioned, Len(c.text), dum.dummyIndex),
        collectCursorPos(positioned, 0, Len(c.text))
            \o dummyCursorPos(positioned, dum.dummyIndex),
        lines,
        addOutlines(c.tree,
                    computeTextDecorations(c.tree, computeFontMetrics(c.out), positioned),
                    positioned, dum.dummyIndex),
        "none",
        [text |-> c.text, initial |-> c.initial, shaped |-> c.shaped.result,
         fixed |-> fixed.result, shapedMap |-> c.shaped.logicalToVisual,
         logicalToVisual |-> dum.logicalToVisual,
         firstCluster |-> fixed.firstCluster, dummyIndex |-> dum.dummyIndex,
         positioned |-> positioned, ltr |-> c.pr.direction = "ltr", returned |-> "done"])

\* lines 607-719: the transform of the dummy entry, the alignment of the line
\* boxes, and the position passes on the characters the line breaker returned
layOutLines(c, fixed, dum, broken) ==
    finishLayout(c, fixed, dum, broken.lineBoxes,
        positionPasses(c.tree,
                       handleLineBoxAlignment(broken.result, numChars(c.tree, 1)),
                       IF dum.dummyIndex > NoIndex
                       THEN InsertAt(c.resolved, dum.dummyIndex, CharTransformation)
                       ELSE c.resolved,
                       c.pr.wrapped))

\* lines 616-623: the line boxes of the characters, the dummy entry included
breakIntoLines(c, fixed, dum) ==
    layOutLines(c, fixed, dum, breakLines(dum.result, dum.logicalToVisual))

\* lines 573-608: the end of the text, fC = qMax(0, firstCluster)
endParagraph(c, fixed) ==
    breakIntoLines(c, fixed,
        insertDummy(closeGraphemes(fixed.result, Max2(0, fixed.firstCluster)),
                    c.shaped.logicalToVisual, Max2(0, fixed.firstCluster)))

\* lines 536-811, from the fix-up loop on
relayoutFrom(c) == endParagraph(c, fixMiddle(c.shaped.result, c.text))

\* lines 467-811, from the retrieval of the glyphs on
relayoutGlyphs(tree, pr, a, cleared, oldLines, text, initial, resolved) ==
    IF glyphsMissing(a.glyphs)
    THEN relayoutReturn("noGlyphs", <<>>, <<>>, oldLines, cleared, "none",
                        [NoTrace EXCEPT !.text = text, !.initial = initial])
    ELSE IF Len(text) = 0
    THEN relayoutReturn("fault", <<>>, <<>>, oldLines, cleared,
                        "result.at(0) of an empty result", [NoTrace EXCEPT !.text = text])
    ELSE relayoutFrom([tree |-> tree, pr |-> pr, text |-> text, initial |-> initial,
                       shaped |-> shapeGlyphs(initial, a.glyphs.list), out |-> cleared,
                       resolved |-> resolved])

\* lines 246-811, from the set-up of the shaper on: rt = what resolveTransforms
\* left in result and resolvedTransforms
relayoutResolved(tree, pr, a, cleared, oldLines, text, rt) ==
    relayoutGlyphs(tree, pr, a, cleared, oldLines, text,
                   setupCharacters(rt.result, text, pr), rt.resolved)

\* lines 155-811, from the collection of the text on
relayoutText(tree, pr, a, cleared, oldLines, text) ==
    relayoutResolved(tree, pr, a, cleared, oldLines, text,
        resolveTransforms(tree, 1, text,
                          [result |-> initResult(text), resolved |-> initTransforms(Len(text))],
                          TRUE, pr.wrapped, a.collapse))

\* relayout: a = the collaborators' answers, out = the nodes' outlines and
\* decorations, oldLines = this->lineBoxes at entry
relayout(tree, pr, a, out, oldLines) ==
    IF Len(tree) = 0
    THEN relayoutReturn("empty", <<>>, <<>>, oldLines, clearAssociatedOutlines(out),
                        "none", NoTrace)
    ELSE relayoutText(tree, pr, a, clearAssociatedOutlines(out), oldLines,
                      collectText(tree, 1))

----------------------------------------------------------------------------
\* The inputs: trees, root properties, and the collaborators' answers.

Node(parent, text) ==
    [parent |-> parent, text |-> text, textLength |-> -1, lengthAdjust |-> "spacing",
     decoration |-> parent = 0, textPath |-> FALSE, localTransformations |-> <<>>]

Texts(n) == UNION {[1 .. m -> CharClasses] : m \in 0 .. n}

\* an empty forest, a root leaf, a root leaf that gives its first two
\* characters a position each, or a root with two leaves
Trees ==
    {<<>>}
    \cup {<<Node(0, t)>> : t \in Texts(MaxChars)}
    \cup {<<[Node(0, t) EXCEPT
               !.localTransformations =
                   <<[CharTransformation EXCEPT !.xPos = Value(0), !.yPos = Value(0)],
                     [CharTransformation EXCEPT !.xPos = Value(2 * Unit)]>>]>> :
             t \in {u \in Texts(MaxSplitChars) : Len(u) >= 2}}
    \cup {<<Node(0, <<>>), Node(1, SubSeq(t, 1, 1)), Node(1, SubSeq(t, 2, Len(t)))>> :
             t \in {u \in Texts(MaxSplitChars) : Len(u) >= 2}}

RootProperties ==
    [direction : {"ltr", "rtl"}, anchor : {"start", "middle", "end"}, wrapped : BOOLEAN]

\* collapseSpaces: only white space gets collapsed
Collapses(text) ==
    {c \in [1 .. Len(text) -> BOOLEAN] : \A k \in 1 .. Len(text) : c[k] => text[k] = "sp"}

\* the shaper's glyphs: one glyph per cluster, the clusters starting at the
\* indices S, in visual order (descending clusters for a right-to-left run)
GlyphList(S, failed, rtl, ligatures) ==
    LET order == IF rtl THEN Reverse(SortedSeq(S)) ELSE SortedSeq(S)
    IN [n \in 1 .. Len(order) |->
          [cluster |-> order[n], ok |-> order[n] \notin failed, rtl |-> rtl,
           advance |-> Unit, ligature |-> order[n] \in ligatures]]

NoGlyphs == [null |-> TRUE, list |-> <<>>]

\* raqm_get_glyphs: NULL (the layout failed or holds no runs), else the glyph
\* array; the code asks for the glyphs of an empty text too, and takes either
\* NULL or an array of count 0 as the answer
GlyphAnswers(text) ==
    {NoGlyphs}
    \cup (IF Len(text) = 0 THEN {[null |-> FALSE, list |-> <<>>]}
          ELSE {[null |-> FALSE,
                  list |-> GlyphList(S \cup {0}, failed, rtl,
                                     IF carets
                                     THEN {c \in S \cup {0} :
                                              c + 1 < Len(text) /\ (c + 1) \notin S}
                                     ELSE {})] :
                   S \in SUBSET (1 .. (Len(text) - 1)),
                   failed \in {F \in SUBSET (0 .. (Len(text) - 1)) : Cardinality(F) <= MaxFailed},
                   rtl \in BOOLEAN, carets \in BOOLEAN})

Answers(tree) ==
    LET text == collectText(tree, 1)
    IN [collapse : Collapses(text), glyphs : GlyphAnswers(text)]

NoAnswer == [collapse |-> <<>>, glyphs |-> NoGlyphs]

----------------------------------------------------------------------------
\* The text shape: a tree that gets laid out, laid out again, and emptied.

Init ==
    /\ textData \in Trees
    /\ props \in RootProperties
    /\ ans = NoAnswer
    /\ result = <<>>
    /\ cursorPos = <<>>
    /\ logicalToVisualCursorPos = EmptyMap
    /\ lineBoxes = <<>>
    /\ nodeOut = [p \in 1 .. Len(textData) |-> NodeOut]
    /\ runs = 0
    /\ lineBoxesAge = "initial"
    /\ fault = "none"
    /\ trace = NoTrace
    /\ arg = <<>>
    /\ ret = <<>>
    /\ pc = "layout"

\* the answers a call can get: any on the first call after an edit; afterwards
\* the collaborators repeat themselves, or glyph retrieval fails
AnswersNow ==
    IF runs = 0 THEN Answers(textData) ELSE {ans, [ans EXCEPT !.glyphs = NoGlyphs]}

\* what a call leaves in the shape: r = what relayout returns, given answers a
storeLayout(a, r) ==
    /\ ans' = a
    /\ result' = r.result
    /\ cursorPos' = r.cursorPos
    /\ logicalToVisualCursorPos' = r.logicalToVisualCursorPos
    /\ lineBoxes' = r.lineBoxes
    /\ nodeOut' = r.nodeOut
    /\ fault' = r.fault
    /\ trace' = r.trace
    /\ lineBoxesAge' = IF r.returned = "done" THEN "fresh"
                       ELSE IF lineBoxesAge = "initial" THEN "initial"
                       ELSE "stale"

\* KoSvgTextShape::Private::relayout()
Relayout ==
    /\ pc = "layout"
    /\ runs < MaxRuns
    /\ fault = "none"
    /\ \E a \in AnswersNow :
          storeLayout(a, relayout(textData, props, a, nodeOut, lineBoxes))
    /\ runs' = runs + 1
    /\ UNCHANGED <<textData, props, arg, ret, pc>>

\* the caller removes every node of the tree (the shape keeps what the last
\* relayout stored until the next one)
RemoveText ==
    /\ pc = "layout"
    /\ runs >= 1
    /\ fault = "none"
    /\ textData # <<>>
    /\ textData' = <<>>
    /\ nodeOut' = <<>>
    /\ runs' = 0
    /\ UNCHANGED <<props, ans, result, cursorPos, logicalToVisualCursorPos, lineBoxes,
                   lineBoxesAge, fault, trace, arg, ret, pc>>

Next == Relayout \/ RemoveText

Spec == Init /\ [][Next]_vars

----------------------------------------------------------------------------
\* Single passes, called on their own: the argument is drawn in the initial
\* state, the call stores what the pass returns.  The shape itself is idle.

IdleShape ==
    /\ textData = <<>>
    /\ props = [direction |-> "ltr", anchor |-> "start", wrapped |-> FALSE]
    /\ ans = NoAnswer
    /\ result = <<>>
    /\ cursorPos = <<>>
    /\ logicalToVisualCursorPos = EmptyMap
    /\ lineBoxes = <<>>
    /\ nodeOut = <<>>
    /\ runs = 0
    /\ lineBoxesAge = "initial"
    /\ fault = "none"
    /\ trace = NoTrace

Anchors == {"start", "middle", "end"}

Directions == {"ltr", "rtl"}

\* --- characterResultOnPath ---

PathLength == 4 * Unit

PathOffsets == {k * PathLength : k \in -2 .. 2} \cup {0 - Unit, Unit}

PathCharacters ==
    {[CharacterResult EXCEPT !.finalPosition = p, !.advance = a, !.visualIndex = 0,
                             !.anchor = an, !.direction = d] :
        p \in {k * Unit : k \in -5 .. 5}, a \in {0, 2 * Unit},
        an \in Anchors, d \in Directions}

PathInit ==
    /\ IdleShape
    /\ pc = "call"
    /\ ret = <<>>
    /\ arg \in [cr : PathCharacters, length : {PathLength}, offset : PathOffsets,
                isClosed : BOOLEAN]

CallCharacterResultOnPath ==
    /\ pc = "call"
    /\ ret' = characterResultOnPath(arg.cr, arg.length, arg.offset, arg.isClosed)
    /\ pc' = "done"
    /\ UNCHANGED <<layoutVars, arg>>

PathNext == CallCharacterResultOnPath

SpecPath == PathInit /\ [][PathNext]_vars

\* --- the character arrays handed to applyAnchoring and applyTextLength ---

\* a character is shaped, collapsed (not addressable) or unshaped (addressable
\* but without a glyph, so "middle"); only the first two take part in anchoring
Kinds == {"shaped", "collapsed", "unshaped"}

PassAdvance == 2 * Unit

PassCharacter(kind, k, pos, anchored, an, d) ==
    [CharacterResult EXCEPT
        !.addressable = kind # "collapsed",
        !.middle = kind # "shaped",
        !.hidden = kind # "shaped",
        !.visualIndex = IF kind = "shaped" THEN k ELSE NoIndex,
        !.plaintTextIndex = k,
        !.advance = IF kind = "shaped" THEN PassAdvance ELSE 0,
        !.inkBoundingBox = IF kind = "shaped" THEN PassAdvance ELSE 0,
        !.glyph = IF kind = "shaped" THEN PassAdvance ELSE 0,
        !.cssPosition = pos,
        !.finalPosition = pos,
        !.anchored_chunk = anchored,
        !.anchor = an,
        !.direction = d]

\* --- applyAnchoring ---

\* the very first character always starts an anchored chunk (line 457); a
\* character that is not addressable is never flagged by the passes
AnchoringArrays ==
    UNION {
      {[k \in 1 .. n |-> PassCharacter(IF addr[k] THEN "shaped" ELSE "collapsed", k - 1,
                                       pos[k], k = 1 \/ (addr[k] /\ flag[k]), an, d)] :
          addr \in [1 .. n -> BOOLEAN], flag \in [1 .. n -> BOOLEAN],
          pos \in [1 .. n -> {0 - PassAdvance, 0, PassAdvance}],
          an \in Anchors, d \in Directions} : n \in 1 .. MaxPassChars}

AnchoringInit ==
    /\ IdleShape
    /\ pc = "call"
    /\ ret = <<>>
    /\ arg \in AnchoringArrays

CallApplyAnchoring ==
    /\ pc = "call"
    /\ ret' = applyAnchoring(arg)
    /\ pc' = "done"
    /\ UNCHANGED <<layoutVars, arg>>

AnchoringNext == CallApplyAnchoring

SpecAnchoring == AnchoringInit /\ [][AnchoringNext]_vars

\* --- applyTextLength ---

\* the characters laid end to end from start, in left-to-right visual order
RECURSIVE layEndToEnd(_, _, _)
layEndToEnd(kinds, k, pos) ==
    IF k > Len(kinds) THEN <<>>
    ELSE <<PassCharacter(kinds[k], k - 1, pos, k = 1, "start", "ltr")>>
         \o layEndToEnd(kinds, k + 1, IF kinds[k] = "shaped" THEN pos + PassAdvance ELSE pos)

LengthAdjusts == {"spacing", "spacingAndGlyphs"}

TextLengths == {3 * PassAdvance, 6 * PassAdvance}

\* the characters in logical order: those of a right-to-left run are laid out
\* from the last one to the first; entry 0 starts a chunk, and so does every
\* entry of anchors
TextLengthArrays(kinds, start, d, anchors) ==
    LET n == Len(kinds)
        laid == layEndToEnd(IF d = "rtl" THEN Reverse(kinds) ELSE kinds, 1, start)
    IN [k \in 1 .. n |->
          [laid[IF d = "rtl" THEN n + 1 - k ELSE k] EXCEPT
              !.plaintTextIndex = k - 1,
              !.anchored_chunk = (k = 1 \/ k \in anchors),
              !.direction = d]]

\* a leaf with textLength, a node with textLength around such a leaf, or two
\* leaves of which one has a textLength
TextLengthTrees(text) ==
    {<<[Node(0, text) EXCEPT !.textLength = t, !.lengthAdjust = la]>> :
        t \in TextLengths, la \in LengthAdjusts}
    \cup {<<[Node(0, <<>>) EXCEPT !.textLength = 6 * PassAdvance, !.lengthAdjust = la],
            [Node(1, text) EXCEPT !.textLength = 3 * PassAdvance, !.lengthAdjust = lb]>> :
             la \in LengthAdjusts, lb \in LengthAdjusts}
    \cup {<<Node(0, <<>>),
            [Node(1, SubSeq(text, 1, m)) EXCEPT
                !.textLength = IF first THEN 3 * PassAdvance ELSE @, !.lengthAdjust = la],
            [Node(1, SubSeq(text, m + 1, Len(text))) EXCEPT
                !.textLength = IF first THEN @ ELSE 3 * PassAdvance, !.lengthAdjust = la]>> :
             m \in 1 .. Len(text) - 1, first \in BOOLEAN, la \in LengthAdjusts}

TextLengthInit ==
    /\ IdleShape
    /\ pc = "call"
    /\ ret = <<>>
    /\ \E n \in 1 .. MaxPassChars, start \in {0, PassAdvance}, d \in Directions :
          \E kinds \in [1 .. n -> Kinds] :
             \E tree \in TextLengthTrees([k \in 1 .. n |-> "A"]),
                anchors \in SUBSET {k \in 2 .. n : kinds[k] # "collapsed"} :
                arg = [tree |-> tree,
                       result |-> TextLengthArrays(kinds, start, d, anchors)]

CallApplyTextLength ==
    /\ pc = "call"
    /\ ret' = applyTextLength(arg.tree, 1,
                              [result |-> arg.result, resolved |-> 0,
                               div0 |-> FALSE, noLast |-> FALSE, applied |-> <<>>])
    /\ pc' = "done"
    /\ UNCHANGED <<layoutVars, arg>>

TextLengthNext == CallApplyTextLength

SpecTextLength == TextLengthInit /\ [][TextLengthNext]_vars

\* --- applyTextPath ---

\* the root's elements: one with a path, then one or two without, or one
\* without before the one with a path
TextPathTrees ==
    {<<Node(0, <<>>), [Node(1, <<"A">>) EXCEPT !.textPath = TRUE],
       Node(1, [k \in 1 .. a |-> "A"])>> : a \in 1 .. MaxPassChars - 1}
    \cup {<<Node(0, <<>>), [Node(1, <<"A">>) EXCEPT !.textPath = TRUE],
            Node(1, [k \in 1 .. a |-> "A"]), Node(1, <<"A">>)>> :
             a \in 1 .. MaxPassChars - 1}
    \cup {<<Node(0, <<>>), Node(1, <<"A">>), [Node(1, <<"A">>) EXCEPT !.textPath = TRUE],
            Node(1, [k \in 1 .. a |-> "A"])>> : a \in 1 .. MaxPassChars - 1}

TextPaths ==
    [origin : {10 * Unit}, length : {PathLength}, offset : {0, Unit}, isClosed : BOOLEAN]

TextPathInit ==
    /\ IdleShape
    /\ pc = "call"
    /\ ret = <<>>
    /\ \E tree \in TextPathTrees, path \in TextPaths :
          \E kinds \in [1 .. numChars(tree, 1) -> Kinds] :
             \E anchors \in SUBSET {k \in 2 .. numChars(tree, 1) : kinds[k] # "collapsed"} :
                arg = [tree |-> tree, path |-> path,
                       result |-> TextLengthArrays(kinds, 0, "ltr", anchors)]

CallApplyTextPath ==
    /\ pc = "call"
    /\ ret' = applyTextPath(arg.tree, arg.result, arg.path, 0)
    /\ pc' = "done"
    /\ UNCHANGED <<layoutVars, arg>>

TextPathNext == CallApplyTextPath

SpecTextPath == TextPathInit /\ [][TextPathNext]_vars

\* --- 4. Adjust positions: dx, dy ---

\* the transforms handed to the pass: the first one always has a position
\* (lines 240-243), any other may have one, and each may have a dx
DxDyTransforms(n) ==
    {[k \in 1 .. n |-> [xPos |-> IF k = 1 \/ x[k] THEN Value(0) ELSE NoValue,
                        yPos |-> IF k = 1 THEN Value(0) ELSE NoValue,
                        dxPos |-> IF dx[k] THEN Value(Unit) ELSE NoValue]] :
        x \in [1 .. n -> BOOLEAN], dx \in [1 .. n -> BOOLEAN]}

\* the characters as line-box alignment leaves them: only entry 0 flagged
DxDyArrays(n) ==
    {[k \in 1 .. n |-> PassCharacter(kinds[k], k - 1, (k - 1) * PassAdvance, k = 1,
                                     "start", "ltr")] :
        kinds \in [1 .. n -> Kinds]}

DxDyInit ==
    /\ IdleShape
    /\ pc = "call"
    /\ ret = <<>>
    /\ \E n \in 1 .. MaxPassChars :
          arg \in [result : DxDyArrays(n), resolved : DxDyTransforms(n)]

CallAdjustDxDy ==
    /\ pc = "call"
    /\ ret' = adjustDxDy(arg.result, arg.resolved)
    /\ pc' = "done"
    /\ UNCHANGED <<layoutVars, arg>>

DxDyNext == CallAdjustDxDy

SpecDxDy == DxDyInit /\ [][DxDyNext]_vars

\* --- the passes of relayout after shaping (lines 616-733) ---

\* a root with a decoration (and maybe a textLength) over a text-path leaf
\* and a leaf after it
PassTrees ==
    {<<[Node(0, <<>>) EXCEPT !.textLength = t],
       [Node(1, <<"A">>) EXCEPT !.textPath = TRUE],
       Node(1, [k \in 1 .. a |-> "A"])>> :
        a \in 1 .. MaxPassChars - 1, t \in {-1, 6 * PassAdvance}}

\* the statement that follows a pass in relayout: the five position passes
\* and the decorations between anchoring and text path are inside the branch
\* of line 626, the other branch only computes the decorations
afterPassPathFirst(pass, wrapped) ==
    CASE pass = "breakLines" -> "handleLineBoxAlignment"
      [] pass = "handleLineBoxAlignment" ->
            IF wrapped THEN "computeTextDecorationsWrapped" ELSE "dxdy"
      [] pass = "dxdy" -> "textLength"
      [] pass = "textLength" -> "xy"
      [] pass = "xy" -> "anchoring"
      [] pass = "anchoring" -> "textPath"
      [] pass = "textPath" -> "computeTextDecorations"
      [] OTHER -> "cursor"

afterPass(pass, wrapped) ==
    CASE pass = "breakLines" -> "handleLineBoxAlignment"
      [] pass = "handleLineBoxAlignment" ->
            IF wrapped THEN "computeTextDecorationsWrapped" ELSE "dxdy"
      [] pass = "dxdy" -> "textLength"
      [] pass = "textLength" -> "xy"
      [] pass = "xy" -> "anchoring"
      [] pass = "anchoring" -> "computeTextDecorations"
      [] pass = "computeTextDecorations" -> "textPath"
      [] OTHER -> "cursor"

PassInit ==
    /\ IdleShape
    /\ pc = "breakLines"
    /\ \E tree \in PassTrees, wrapped \in BOOLEAN,
          path \in {p \in TextPaths : ~p.isClosed} :
          \E kinds \in [1 .. numChars(tree, 1) -> Kinds] :
             \E resolved \in {r \in DxDyTransforms(numChars(tree, 1)) :
                                 \A k \in 2 .. Len(r) : r[k].dxPos = NoValue} :
                /\ arg = [tree |-> tree, wrapped |-> wrapped, path |-> path,
                          resolved |-> resolved]
                /\ ret = [result |-> TextLengthArrays(kinds, 0, "ltr", {}),
                          out |-> [p \in 1 .. Len(tree) |-> NodeOut],
                          aligned |-> <<>>, passes |-> <<>>]

\* a pass ran: what it left in result, and the statement that follows it
passDone(pass, res) ==
    /\ pc = pass
    /\ ret' = [ret EXCEPT !.result = res, !.passes = Append(@, pass)]
    /\ pc' = afterPass(pass, arg.wrapped)
    /\ UNCHANGED <<layoutVars, arg>>

\* lines 616-623
BreakLines ==
    passDone("breakLines",
             breakLines(ret.result,
                        [k \in {j \in Indices(ret.result) :
                                   At(ret.result, j).visualIndex > NoIndex} |->
                            At(ret.result, k).visualIndex]).result)

\* lines 625-627
AlignLineBoxes ==
    /\ pc = "handleLineBoxAlignment"
    /\ LET res == handleLineBoxAlignment(ret.result, numChars(arg.tree, 1))
       IN ret' = [ret EXCEPT !.result = res, !.aligned = res,
                             !.passes = Append(@, "handleLineBoxAlignment")]
    /\ pc' = afterPass("handleLineBoxAlignment", arg.wrapped)
    /\ UNCHANGED <<layoutVars, arg>>

\* lines 632-661
AdjustDxDy == passDone("dxdy", adjustDxDy(ret.result, arg.resolved))

\* lines 664-667
ApplyTextLength ==
    passDone("textLength",
             applyTextLength(arg.tree, 1,
                             [result |-> ret.result, resolved |-> 0, div0 |-> FALSE,
                              noLast |-> FALSE, applied |-> <<>>]).result)

\* lines 670-692
AdjustXY == passDone("xy", adjustXY(ret.result, arg.resolved))

\* lines 695-696
ApplyAnchoring == passDone("anchoring", applyAnchoring(ret.result))

\* lines 702-713, and lines 721-733 for a wrapped text
ComputeTextDecorations ==
    /\ pc \in {"computeTextDecorations", "computeTextDecorationsWrapped"}
    /\ ret' = [ret EXCEPT !.out = computeTextDecorations(arg.tree, @, ret.result),
                          !.passes = Append(@, "computeTextDecorations")]
    /\ pc' = afterPass(pc, arg.wrapped)
    /\ UNCHANGED <<layoutVars, arg>>

\* line 718
ApplyTextPath ==
    passDone("textPath", applyTextPath(arg.tree, ret.result, arg.path, 0).result)

PassNext ==
    \/ BreakLines
    \/ AlignLineBoxes
    \/ AdjustDxDy
    \/ ApplyTextLength
    \/ AdjustXY
    \/ ApplyAnchoring
    \/ ComputeTextDecorations
    \/ ApplyTextPath

SpecPasses == PassInit /\ [][PassNext]_vars

\* --- generateDecorationPaths (lines 1303-1512), without a text path ---

DecorationStyles == {"Solid", "Double", "Dotted", "Dashed", "Wavy"}

DecorationTypes == {"underline", "overline", "lineThrough"}

\* stroker.width() (line 1331) and minimumDecorationThickness
StrokerWidth == 4

MinimumDecorationThickness == 1

\* lines 1351-1383 with the characters of each run: st = [runs, rect, chars,
\* members], a run being closed at every anchored chunk start and at the end
decorationRunStep(st, res, k) ==
    IF At(res, k).hidden \/ ~At(res, k).addressable THEN st
    ELSE LET next == decorationStep([runs |-> st.runs, rect |-> st.rect], At(res, k))
         IN [runs |-> next.runs, rect |-> next.rect,
             chars |-> IF At(res, k).anchored_chunk THEN <<k>> ELSE Append(st.chars, k),
             members |-> IF At(res, k).anchored_chunk
                         THEN Append(st.members, st.chars) ELSE st.members]

RECURSIVE decorationRunsFrom(_, _, _, _)
decorationRunsFrom(st, res, k, j) ==
    IF k >= j
    THEN [rects |-> Append(st.runs, st.rect), members |-> Append(st.members, st.chars)]
    ELSE decorationRunsFrom(decorationRunStep(st, res, k), res, k + 1, j)

\* lines 1430-1475: pathWidth across the axis of a horizontal text
pathWidth(style) ==
    IF style = "Double"
    THEN 0 - Max2((StrokerWidth * 3) \div 2, MinimumDecorationThickness * 2)
    ELSE IF style = "Wavy" THEN 0 - StrokerWidth
    ELSE 0

\* lines 1477-1483: the offsets after one more rect
nextOffsets(offsets, style) ==
    [offsets EXCEPT !.overline = @ + pathWidth(style),
                    !.lineThrough = @ + pathWidth(style) \div 2]

\* lines 1485-1503: the path of rect i for every type of decor, placed at the
\* start of the rect along the axis and at the type's offset across it
placedRuns(rect, chars, i, offsets, decor) ==
    {[type |-> type, run |-> i, chars |-> chars,
      start |-> IF rect = <<>> THEN 0 ELSE rect[1],
      length |-> IF rect = <<>> THEN 0 ELSE rect[2] - rect[1],
      offset |-> offsets[type]] : type \in decor}

\* lines 1405-1504: the loop over decorationRects; st = [offsets, paths]
RECURSIVE placeFrom(_, _, _, _, _)
placeFrom(st, made, i, style, decor) ==
    IF i >= Len(made.rects) THEN st.paths
    ELSE placeFrom([offsets |-> nextOffsets(st.offsets, style),
                    paths |-> st.paths
                        \cup placedRuns(At(made.rects, i), At(made.members, i), i,
                                        nextOffsets(st.offsets, style), decor)],
                   made, i + 1, style, decor)

\* base = the offsets of lines 1386-1403
placedDecorations(res, i, j, style, decor, base) ==
    placeFrom([offsets |-> base, paths |-> {}],
              decorationRunsFrom([runs |-> <<>>, rect |-> <<>>, chars |-> <<>>,
                                  members |-> <<>>], res, i, j),
              0, style, decor)

DecorationInit ==
    /\ IdleShape
    /\ pc = "call"
    /\ ret = <<>>
    /\ \E n \in 1 .. MaxPassChars, style \in DecorationStyles :
          \E kinds \in [1 .. n -> Kinds] :
             \E anchors \in SUBSET {k \in 2 .. n : kinds[k] # "collapsed"} :
                arg = [result |-> TextLengthArrays(kinds, 0, "ltr", anchors),
                       style |-> style, decor |-> DecorationTypes,
                       offsets |-> [underline |-> 8, overline |-> 0 - 40,
                                    lineThrough |-> 0 - 16]]

CallGenerateDecorationPaths ==
    /\ pc = "call"
    /\ ret' = placedDecorations(arg.result, 0, Len(arg.result), arg.style, arg.decor,
                                arg.offsets)
    /\ pc' = "done"
    /\ UNCHANGED <<layoutVars, arg>>

DecorationNext == CallGenerateDecorationPaths

SpecDecorations == DecorationInit /\ [][DecorationNext]_vars

\* --- resolveTransforms ---

\* the classes of the text of this pass: letters, white space, directional
\* controls and soft hyphens
ResolveClasses == {"A", "sp", "bidi", "shy"}

ResolveTexts == UNION {[1 .. m -> ResolveClasses] : m \in 1 .. MaxSplitChars}

\* an x and a y for the first character of the node
LocalTransformations ==
    {<<>>, <<[xPos |-> Value(Unit), yPos |-> Value(Unit), dxPos |-> NoValue]>>,
     <<[xPos |-> Value(Unit), yPos |-> Value(Unit), dxPos |-> NoValue],
       [xPos |-> Value(2 * Unit), yPos |-> Value(2 * Unit), dxPos |-> NoValue]>>}

\* the text in the root, in a child of the root, or in a grandchild; the child
\* may be a text path
ResolveTrees(text) ==
    {<<[Node(0, text) EXCEPT !.localTransformations = l]>> : l \in LocalTransformations}
    \cup {<<Node(0, <<>>),
            [Node(1, text) EXCEPT !.textPath = tp, !.localTransformations = l]>> :
             tp \in BOOLEAN, l \in LocalTransformations}
    \cup {<<Node(0, <<>>), [Node(1, <<>>) EXCEPT !.textPath = tp],
            [Node(2, text) EXCEPT !.localTransformations = l]>> :
             tp \in BOOLEAN, l \in LocalTransformations}

ResolveInit ==
    /\ IdleShape
    /\ pc = "call"
    /\ ret = <<>>
    /\ \E text \in ResolveTexts :
          arg \in [tree : ResolveTrees(text), text : {text}, collapse : Collapses(text),
                   wrapped : BOOLEAN, isHorizontal : BOOLEAN]

\* relayout, lines 237-244: the call on the root
CallResolveTransforms ==
    /\ pc = "call"
    /\ ret' = resolveTransforms(arg.tree, 1, arg.text,
                                [result |-> initResult(arg.text),
                                 resolved |-> initTransforms(Len(arg.text))],
                                arg.isHorizontal, arg.wrapped, arg.collapse)
    /\ pc' = "done"
    /\ UNCHANGED <<layoutVars, arg>>

ResolveNext == CallResolveTransforms

SpecResolve == ResolveInit /\ [][ResolveNext]_vars

----------------------------------------------------------------------------
\* KisMaskingBrushCompositeOpFactory (KisMaskingBrushCompositeOpFactory.cpp).

\* a null pointer
NullOp == [null |-> TRUE]

\* new KisMaskingBrushCompositeOp<channel_type, function>(pixelSize, alphaOffset)
MaskingOp(channel, function, pixelSize, alphaOffset) ==
    [null |-> FALSE, channel |-> channel, function |-> function,
     pixelSize |-> pixelSize, alphaOffset |-> alphaOffset]

\* lines 148-159
supportedCompositeOpIds ==
    <<"COMPOSITE_MULT", "COMPOSITE_DARKEN", "COMPOSITE_OVERLAY", "COMPOSITE_DODGE",
      "COMPOSITE_BURN", "COMPOSITE_LINEAR_BURN", "COMPOSITE_LINEAR_DODGE",
      "COMPOSITE_HARD_MIX">>

\* lines 79-95: the function the id selects, "" when no branch is taken
typedFunction(id) ==
    CASE id = "COMPOSITE_MULT" -> "cfMultiply"
      [] id = "COMPOSITE_DARKEN" -> "cfDarkenOnly"
      [] id = "COMPOSITE_OVERLAY" -> "cfOverlay"
      [] id = "COMPOSITE_DODGE" -> "cfColorDodge"
      [] id = "COMPOSITE_BURN" -> "cfColorBurn"
      [] id = "COMPOSITE_LINEAR_BURN" -> "maskingLinearBurn"
      [] id = "COMPOSITE_LINEAR_DODGE" -> "maskingAddition"
      [] id = "COMPOSITE_HARD_MIX" -> "cfHardMix"
      [] OTHER -> ""

\* a createTypedOp that hands the null pointer on for an unknown id
createTypedOpUnrecovered(channel, id, pixelSize, alphaOffset) ==
    IF typedFunction(id) = "" THEN NullOp
    ELSE MaskingOp(channel, typedFunction(id), pixelSize, alphaOffset)

\* createTypedOp<channel_type>, lines 74-102: KIS_SAFE_ASSERT_RECOVER runs its
\* block when no branch made an op
createTypedOp(channel, id, pixelSize, alphaOffset) ==
    IF typedFunction(id) = ""
    THEN MaskingOp(channel, "cfMultiply", pixelSize, alphaOffset)
    ELSE MaskingOp(channel, typedFunction(id), pixelSize, alphaOffset)

\* KoChannelInfo::enumChannelValueType
ChannelTypes ==
    {"UINT8", "UINT16", "UINT32", "FLOAT16", "FLOAT32", "FLOAT64", "INT8", "INT16", "OTHER"}

\* the channel_type of the case taken at lines 110-140, "" for the default;
\* the FLOAT16 case exists only in a build with HAVE_OPENEXR
typedChannel(channelType, haveOpenExr) ==
    CASE channelType = "UINT8" -> "quint8"
      [] channelType = "UINT16" -> "quint16"
      [] channelType = "UINT32" -> "quint32"
      [] channelType = "FLOAT16" /\ haveOpenExr -> "half"
      [] channelType = "FLOAT32" -> "float"
      [] channelType = "FLOAT64" -> "double"
      [] channelType = "INT16" -> "qint16"
      [] OTHER -> ""

\* KisMaskingBrushCompositeOpFactory::create, lines 106-146
create(id, channelType, pixelSize, alphaOffset, haveOpenExr) ==
    IF typedChannel(channelType, haveOpenExr) = "" THEN NullOp
    ELSE createTypedOp(typedChannel(channelType, haveOpenExr), id, pixelSize, alphaOffset)

\* the ids of the list, and some that are not in it
CompositeOpIds ==
    {supportedCompositeOpIds[n] : n \in 1 .. Len(supportedCompositeOpIds)}
    \cup {"", "COMPOSITE_OVER", "COMPOSITE_ERASE"}

FactoryInit ==
    /\ IdleShape
    /\ pc = "call"
    /\ ret = <<>>
    /\ arg \in [id : CompositeOpIds, channelType : ChannelTypes, pixelSize : {4},
                alphaOffset : {3}, haveOpenExr : BOOLEAN]

CallCreate ==
    /\ pc = "call"
    /\ ret' = create(arg.id, arg.channelType, arg.pixelSize, arg.alphaOffset,
                     arg.haveOpenExr)
    /\ pc' = "done"
    /\ UNCHANGED <<layoutVars, arg>>

FactoryNext == CallCreate

SpecFactory == FactoryInit /\ [][FactoryNext]_vars

----------------------------------------------------------------------------
\* KisLodAvailabilityModel (KisLodAvailabilityModel.cpp): the data, the brush
\* size and the limitations are set from outside, availabilityState and
\* effectiveLodAvailable are derived from them.

\* the threshold looked at before the blockers
calcLodAvailabilityStateThresholdFirst(data, effectiveBrushSize, l) ==
    IF data.isLodSizeThresholdSupported /\ effectiveBrushSize < data.lodSizeThreshold
    THEN "BlockedByThreshold"
    ELSE IF l.blockers # <<>> THEN "BlockedFully"
    ELSE IF l.limitations # <<>> THEN "Limited"
    ELSE "Available"

\* calcLodAvailabilityState, lines 10-27
calcLodAvailabilityState(data, effectiveBrushSize, l) ==
    IF l.blockers # <<>> THEN "BlockedFully"
    ELSE IF data.isLodSizeThresholdSupported /\ effectiveBrushSize < data.lodSizeThreshold
    THEN "BlockedByThreshold"
    ELSE IF l.limitations # <<>> THEN "Limited"
    ELSE "Available"

\* enum AvailabilityState (KisLodAvailabilityModel.h): the value of a state
availabilityValue(state) ==
    CASE state = "Available" -> 0
      [] state = "Limited" -> 1
      [] state = "BlockedByThreshold" -> 2
      [] state = "BlockedFully" -> 3

\* lines 37-38: the two derived readers
lodReaders(in) ==
    LET state == calcLodAvailabilityState(in.data, in.effectiveBrushSize, in.lodLimitations)
    IN [availabilityState |-> state,
        effectiveLodAvailable |-> availabilityValue(state) <= availabilityValue("Limited")]

LodData ==
    [isLodUserAllowed : BOOLEAN, isLodSizeThresholdSupported : BOOLEAN,
     lodSizeThreshold : {50, 100}]

BrushSizes == {10, 50, 75, 100}

LodLimitations == [blockers : {<<>>, <<"b">>}, limitations : {<<>>, <<"l">>}]

LodInit ==
    /\ IdleShape
    /\ pc = "lod"
    /\ arg = [data |-> [isLodUserAllowed |-> TRUE, isLodSizeThresholdSupported |-> FALSE,
                        lodSizeThreshold |-> 100],
              effectiveBrushSize |-> 10,
              lodLimitations |-> [blockers |-> <<>>, limitations |-> <<>>]]
    /\ ret = lodReaders(arg)

\* an input changed: the readers follow
lodInputs(in) ==
    /\ pc = "lod"
    /\ arg' = in
    /\ ret' = lodReaders(in)
    /\ UNCHANGED <<layoutVars, pc>>

SetLodData == \E d \in LodData : lodInputs([arg EXCEPT !.data = d])

SetEffectiveBrushSize == \E b \in BrushSizes : lodInputs([arg EXCEPT !.effectiveBrushSize = b])

SetLodLimitations == \E l \in LodLimitations : lodInputs([arg EXCEPT !.lodLimitations = l])

LodNext == SetLodData \/ SetEffectiveBrushSize \/ SetLodLimitations

SpecLod == LodInit /\ [][LodNext]_vars

----------------------------------------------------------------------------
\* WGCommonColorsCalculationRunner::extractColors
\* (WGCommonColorsCalculationRunner.cpp).  A colour is <<r, g, b>>, a VBox the
\* list of its colours.

RedAxis == 1

GreenAxis == 2

BlueAxis == 3

\* C++ integer division truncates towards zero
truncDiv(a, b) == IF a >= 0 THEN a \div b ELSE 0 - ((0 - a) \div b)

axisValues(box, axis) == {box[n][axis] : n \in 1 .. Len(box)}

\* VBox::axisSize, lines 92-103: unsigned char arithmetic, valMin = 255 and
\* valMax = 0 for an empty box
axisSize(box, axis) ==
    IF box = <<>> THEN (0 - 255) % 256
    ELSE (SetMax(axisValues(box, axis)) - SetMin(axisValues(box, axis))) % 256

\* VBox::biggestAxis, lines 105-113
biggestAxis(box) ==
    IF axisSize(box, RedAxis) > axisSize(box, GreenAxis)
       /\ axisSize(box, RedAxis) > axisSize(box, BlueAxis) THEN RedAxis
    ELSE IF axisSize(box, GreenAxis) > axisSize(box, RedAxis)
            /\ axisSize(box, GreenAxis) > axisSize(box, BlueAxis) THEN GreenAxis
    ELSE BlueAxis

\* a division at the highest value of the axis
divPosAtMax(box, axis) == SetMax(axisValues(box, axis))

\* VBox::divPos, lines 125-135
divPos(box, axis) ==
    ((SetMin(axisValues(box, axis)) + SetMax(axisValues(box, axis))) \div 2) % 256

\* VBox::divide, lines 58-74: the colours above divpos leave the box, from the
\* last one to the first
divide(box) ==
    LET axis == biggestAxis(box)
        divpos == divPos(box, axis)
    IN [kept |-> SelectSeq(box, LAMBDA c : c[axis] <= divpos),
        new |-> Reverse(SelectSeq(box, LAMBDA c : c[axis] > divpos))]

\* VBox::mean, lines 76-90
mean(box) ==
    [axis \in 1 .. 3 |-> SeqSum([n \in 1 .. Len(box) |-> box[n][axis]]) \div Len(box)]

\* lines 165-174: the first box of the largest population among those whose
\* biggest axis is at least 3 long; st = [biggestBox, biggestBoxPopulation]
RECURSIVE byPopulation(_, _, _)
byPopulation(st, boxes, i) ==
    IF i >= Len(boxes) THEN st.biggestBox
    ELSE byPopulation(
            IF Len(At(boxes, i)) > st.biggestBoxPopulation
               /\ axisSize(At(boxes, i), biggestAxis(At(boxes, i))) >= 3
            THEN [biggestBox |-> i, biggestBoxPopulation |-> Len(At(boxes, i))]
            ELSE st,
            boxes, i + 1)

\* lines 184-193: the first box of the longest biggest axis, at least 3 long
RECURSIVE byAxisSize(_, _, _)
byAxisSize(st, boxes, i) ==
    IF i >= Len(boxes) THEN st.biggestBox
    ELSE byAxisSize(
            IF axisSize(At(boxes, i), biggestAxis(At(boxes, i))) > st.biggestBoxAxisSize
               /\ axisSize(At(boxes, i), biggestAxis(At(boxes, i))) >= 3
            THEN [biggestBox |-> i,
                  biggestBoxAxisSize |-> axisSize(At(boxes, i), biggestAxis(At(boxes, i)))]
            ELSE st,
            boxes, i + 1)

\* the box a loop picks, NoIndex for none
pickedBox(loop, boxes) ==
    IF loop = "population"
    THEN byPopulation([biggestBox |-> NoIndex, biggestBoxPopulation |-> NoIndex], boxes, 0)
    ELSE byAxisSize([biggestBox |-> NoIndex, biggestBoxAxisSize |-> NoIndex], boxes, 0)

\* lines 164 and 183: the condition of a loop
loopRuns(loop, boxes, colors, numColors) ==
    IF loop = "population"
    THEN Len(boxes) < truncDiv(numColors * 3, 5) /\ Len(colors) > truncDiv(numColors * 3, 5)
    ELSE Len(boxes) < numColors /\ Len(colors) > numColors

\* lines 176-177 and 195-196: does the iteration go on to divide?
divides(loop, boxes, colors, numColors) ==
    /\ loopRuns(loop, boxes, colors, numColors)
    /\ pickedBox(loop, boxes) # NoIndex
    /\ Len(At(boxes, pickedBox(loop, boxes))) > 3

\* the colours of the thumbnail: red 0, 1, 3 or 7, and one with green as well
ThumbnailColors == {<<0, 0, 0>>, <<1, 0, 0>>, <<3, 0, 0>>, <<7, 0, 0>>, <<7, 7, 0>>}

MaxColors == 5

NumbersOfColors == {0 - 1, 0, 1, 3, 5}

ExtractInit ==
    /\ IdleShape
    /\ pc = "call"
    /\ ret = <<>>
    /\ \E n \in 0 .. MaxColors, numColors \in NumbersOfColors :
          \E colors \in [1 .. n -> ThumbnailColors] :
             arg = [colors |-> colors, numColors |-> numColors, commonColors |-> <<>>]

\* lines 158-162
StartExtract ==
    /\ pc = "call"
    /\ ret' = [boxes |-> <<arg.colors>>, commonColors |-> arg.commonColors,
               divided |-> <<>>]
    /\ pc' = "population"
    /\ UNCHANGED <<layoutVars, arg>>

\* lines 178-179 and 197-198: an iteration that divides the picked box
DivideBox ==
    /\ pc \in {"population", "axisSize"}
    /\ divides(pc, ret.boxes, arg.colors, arg.numColors)
    /\ LET b == pickedBox(pc, ret.boxes)
           parts == divide(At(ret.boxes, b))
       IN ret' = [ret EXCEPT
                     !.boxes = Append(Put(ret.boxes, b, parts.kept), parts.new),
                     !.divided = Append(@, [box |-> At(ret.boxes, b), kept |-> parts.kept,
                                            new |-> parts.new])]
    /\ UNCHANGED <<layoutVars, arg, pc>>

\* the loop condition fails, or the iteration breaks
LeaveLoop ==
    /\ pc \in {"population", "axisSize"}
    /\ ~divides(pc, ret.boxes, arg.colors, arg.numColors)
    /\ pc' = IF pc = "population" THEN "axisSize" ELSE "append"
    /\ UNCHANGED <<layoutVars, arg, ret>>

\* lines 201-208
AppendColors ==
    /\ pc = "append"
    /\ ret' = [ret EXCEPT
                  !.commonColors =
                      @ \o [n \in 1 .. Len(SelectSeq(ret.boxes, LAMBDA b : Len(b) >= 1)) |->
                              mean(SelectSeq(ret.boxes, LAMBDA b : Len(b) >= 1)[n])]]
    /\ pc' = "done"
    /\ UNCHANGED <<layoutVars, arg>>

ExtractNext == StartExtract \/ DivideBox \/ LeaveLoop \/ AppendColors

SpecExtract == ExtractInit /\ [][ExtractNext]_vars

----------------------------------------------------------------------------
\* KisPredefinedBrushFactory (kis_predefined_brush_factory.cpp): a brush model
\* is written to an element with toXML and read back with createBrushModel.
\* A double is counted in millionths; an element is the function from the
\* names of its attributes to their values.

Million == 1000000

\* x rounded to a multiple of q, half away from zero
roundTo(x, q) ==
    IF x >= 0 THEN ((x + q \div 2) \div q) * q ELSE 0 - (((0 - x) + q \div 2) \div q) * q

\* QString::number(double): six significant digits
number(x) ==
    LET a == IF x >= 0 THEN x ELSE 0 - x
    IN IF a < Million THEN x
       ELSE IF a < 10 * Million THEN roundTo(x, 10)
       ELSE roundTo(x, 100)

\* QDomElement::attribute(name, default)
attribute(e, name, default) == IF name \in DOMAIN e THEN e[name] ELSE default

\* enumBrushApplication: the values are named, never counted
ALPHAMASK == "ALPHAMASK"

IMAGESTAMP == "IMAGESTAMP"

LIGHTNESSMAP == "LIGHTNESSMAP"

GRADIENTMAP == "GRADIENTMAP"

\* lines 254-280 with the two version attributes as given
xmlAttributes(id, model, version) ==
    LET names == {"type", "BrushVersion", "filename", "md5sum", "spacing",
                  "useAutoSpacing", "autoSpacingCoeff", "angle", "scale",
                  "brushApplication"}
                 \cup (IF id = "abr_brush" THEN {"name"}
                       ELSE {"ColorAsMask", "AdjustmentMidPoint", "BrightnessAdjustment",
                             "ContrastAdjustment", "AutoAdjustMidPoint",
                             "AdjustmentVersion"})
    IN [n \in names |->
          CASE n = "type" -> id
            [] n = "BrushVersion" -> version
            [] n = "filename" -> model.resourceSignature
            [] n = "md5sum" -> model.resourceSignature
            [] n = "name" -> model.resourceSignature
            [] n = "spacing" -> number(model.spacing)
            [] n = "useAutoSpacing" -> IF model.useAutoSpacing THEN 1 ELSE 0
            [] n = "autoSpacingCoeff" -> number(model.autoSpacingCoeff)
            [] n = "angle" -> number(model.angle)
            [] n = "scale" -> number(model.scale)
            [] n = "brushApplication" -> model.application
            [] n = "ColorAsMask" -> IF model.application # IMAGESTAMP THEN 1 ELSE 0
            [] n = "AdjustmentMidPoint" -> model.adjustmentMidPoint
            [] n = "BrightnessAdjustment" -> number(model.brightnessAdjustment)
            [] n = "ContrastAdjustment" -> number(model.contrastAdjustment)
            [] n = "AutoAdjustMidPoint" -> IF model.autoAdjustMidPoint THEN 1 ELSE 0
            [] n = "AdjustmentVersion" -> version]

\* a toXML that writes the version of the old files
toXMLVersion1(id, model) == xmlAttributes(id, model, 1)

\* KisPredefinedBrushFactory::toXML, lines 250-281, on a new element
toXML(id, model) == xmlAttributes(id, model, 2)

\* lines 212-220
legacyBrushApplication(colorful, hasColorAndTransparency, forceColorToAlpha) ==
    IF colorful /\ hasColorAndTransparency /\ ~forceColorToAlpha
    THEN IMAGESTAMP ELSE ALPHAMASK

\* lines 223-245
readApplication(e, resource) ==
    IF "preserveLightness" \in DOMAIN e
    THEN (IF e["preserveLightness"] # 0 THEN LIGHTNESSMAP
          ELSE legacyBrushApplication(resource.colorful, resource.hasColorAndTransparency,
                                      attribute(e, "ColorAsMask", 1) # 0))
    ELSE IF "brushApplication" \in DOMAIN e THEN e["brushApplication"]
    ELSE IF "ColorAsMask" \in DOMAIN e
    THEN legacyBrushApplication(resource.colorful, resource.hasColorAndTransparency,
                                e["ColorAsMask"] # 0)
    ELSE legacyBrushApplication(resource.colorful, resource.hasColorAndTransparency, FALSE)

\* lines 191-203: are the adjustments those of Krita 4?
legacyAdjustments(e) ==
    attribute(e, "AdjustmentVersion", 1) < 2 /\ "AutoAdjustMidPoint" \notin DOMAIN e

\* lines 200-202: 1.0 / (1.0 - contrastAdjustment) - 1.0
legacyContrast(c) ==
    IF c < 0 THEN (Million * 1000) \div ((Million - c) \div 1000) - Million ELSE c

\* lines 166-210: the adjustments of a colorful brush
readAdjustments(brush, e, resource) ==
    LET adjustmentMidPoint == attribute(e, "AdjustmentMidPoint", 127) % 256
        brightnessAdjustment == attribute(e, "BrightnessAdjustment", 0)
        contrastAdjustment == attribute(e, "ContrastAdjustment", 0)
    IN [brush EXCEPT
           !.adjustmentMidPoint =
               IF legacyAdjustments(e)
               THEN Max2(0, Min2(127 + (adjustmentMidPoint - 127) * 2, 255))
               ELSE adjustmentMidPoint,
           !.brightnessAdjustment =
               IF legacyAdjustments(e) THEN brightnessAdjustment * 2
               ELSE brightnessAdjustment,
           !.contrastAdjustment =
               IF legacyAdjustments(e) THEN legacyContrast(contrastAdjustment * 2)
               ELSE contrastAdjustment,
           !.autoAdjustMidPoint = attribute(e, "AutoAdjustMidPoint", 0) # 0,
           !.hasColorAndTransparency = resource.hasColorAndTransparency]

\* std::nullopt
NoBrush == [null |-> TRUE]

\* KisPredefinedBrushFactory::createBrushModel, lines 137-248: blank = the
\* BrushData of line 139, resource = the brush that bestMatch finds
createBrushModel(e, id, resource, blank) ==
    IF ~resource.available THEN NoBrush
    ELSE LET common ==
                 [blank EXCEPT
                     !.type = "Predefined",
                     !.subtype = id,
                     !.angle = attribute(e, "angle", 0),
                     !.spacing = attribute(e, "spacing", Million \div 4),
                     !.useAutoSpacing = attribute(e, "useAutoSpacing", 0) # 0,
                     !.autoSpacingCoeff = attribute(e, "autoSpacingCoeff", Million),
                     !.resourceSignature = resource.signature,
                     !.baseSize = <<resource.width, resource.height>>,
                     !.scale = attribute(e, "scale", Million)
                                  * (IF attribute(e, "BrushVersion", 1) = 1 THEN 2 ELSE 1)]
             adjusted == IF resource.colorful THEN readAdjustments(common, e, resource)
                         ELSE common
         IN [adjusted EXCEPT !.application = readApplication(e, resource)]

\* KisBrushModel::BrushData: the fields the factory reads and writes
BrushModels ==
    [null : {FALSE}, type : {"Predefined"}, subtype : {""}, angle : {0},
     spacing : {Million \div 4}, useAutoSpacing : BOOLEAN, autoSpacingCoeff : {Million},
     resourceSignature : {"brush"}, baseSize : {<<64, 64>>}, scale : {Million, 1234567},
     adjustmentMidPoint : {0, 127, 200}, brightnessAdjustment : {0, 300000},
     contrastAdjustment : {0 - 500000, 0}, autoAdjustMidPoint : BOOLEAN,
     hasColorAndTransparency : {FALSE},
     application : {ALPHAMASK, IMAGESTAMP, LIGHTNESSMAP, GRADIENTMAP}]

\* the BrushData of line 139 before anything is assigned to it
BlankModels ==
    {m \in BrushModels :
        /\ ~m.useAutoSpacing /\ m.scale = Million /\ m.application = ALPHAMASK
        /\ m.brightnessAdjustment = 0 /\ m.contrastAdjustment = 0
        /\ m.adjustmentMidPoint \in {0, 127} /\ ~m.autoAdjustMidPoint}

\* the brush files: every brush but an abr brush is a KisColorfulBrush (line 270)
BrushResources ==
    {r \in [id : {"abr_brush", "gbr_brush"}, available : BOOLEAN, colorful : BOOLEAN,
            hasColorAndTransparency : BOOLEAN, signature : {"brush"},
            width : {64}, height : {64}] :
        /\ r.id # "abr_brush" => r.colorful
        /\ r.hasColorAndTransparency => r.colorful}

\* elements written by Krita 4: no version attributes
LegacyElements ==
    {[n \in {"filename", "scale", "AdjustmentMidPoint", "ContrastAdjustment"} \cup extra |->
         CASE n = "filename" -> "brush"
           [] n = "scale" -> Million \div 2
           [] n = "AdjustmentMidPoint" -> 100
           [] n = "ContrastAdjustment" -> 0 - 250000
           [] n = "preserveLightness" -> 1
           [] n = "ColorAsMask" -> 0] :
        extra \in SUBSET {"preserveLightness", "ColorAsMask"}}

MaxCycles == 2

BrushInit ==
    /\ IdleShape
    /\ \E resource \in BrushResources, blank \in BlankModels :
          /\ arg = [resource |-> resource, blank |-> blank]
          /\ \/ /\ pc = "model"
                /\ \E m \in BrushModels :
                      ret = [model |-> [m EXCEPT !.subtype = resource.id], element |-> <<>>,
                             first |-> NoBrush, cycles |-> 0]
             \/ /\ pc = "element"
                /\ \E e \in LegacyElements :
                      ret = [model |-> NoBrush, element |-> e, first |-> NoBrush,
                             cycles |-> 0]

\* the model is saved
WriteXML ==
    /\ pc = "model"
    /\ ret.cycles < MaxCycles
    /\ ret' = [ret EXCEPT !.element = toXML(arg.resource.id, ret.model),
                          !.first = IF ret.first.null THEN ret.model ELSE @]
    /\ pc' = "element"
    /\ UNCHANGED <<layoutVars, arg>>

\* the element is loaded
ReadXML ==
    /\ pc = "element"
    /\ ret' = [ret EXCEPT
                  !.model = createBrushModel(ret.element, arg.resource.id, arg.resource,
                                             arg.blank),
                  !.cycles = IF ret.first.null THEN 0 ELSE @ + 1]
    /\ pc' = IF arg.resource.available THEN "model" ELSE "missing"
    /\ UNCHANGED <<layoutVars, arg>>

BrushNext == WriteXML \/ ReadXML

SpecBrush == BrushInit /\ [][BrushNext]_vars

----------------------------------------------------------------------------
\* FontStyleModel (FontStyleModel.cpp): the list model of the styles of a
\* font family.  A style has its instance coordinates (a function from axis
\* tags to values) and the two flags the model reads.

WEIGHT_TAG == "wght"

ITALIC_TAG == "ital"

SLANT_TAG == "slnt"

\* lines 38-39: the QFont::Style compared, Normal < Italic < Oblique
fontStyle(isItalic, isOblique) ==
    IF isItalic THEN (IF isOblique THEN 2 ELSE 1) ELSE 0

\* QHash::value(key): the default-constructed qreal for a missing key
coordValue(coords, key) == IF key \in DOMAIN coords THEN coords[key] ELSE 0

\* styleLowerThan, lines 30-41 (bStyle reads a.isOblique, line 39)
styleLowerThan(a, b) ==
    \/ \E key \in DOMAIN a.instanceCoords \ {ITALIC_TAG, SLANT_TAG} :
          a.instanceCoords[key] < coordValue(b.instanceCoords, key)
    \/ fontStyle(a.isItalic, a.isOblique) < fontStyle(b.isItalic, a.isOblique)

\* the rearrangements of a list
rearrangements(list) ==
    {[i \in 1..Len(list) |-> list[f[i]]] :
        f \in {g \in [1..Len(list) -> 1..Len(list)] :
                  \A i, j \in 1..Len(list) : i # j => g[i] # g[j]}}

\* std::sort(styles.begin(), styles.end(), styleLowerThan), line 47: a
\* rearrangement in which no style is after one it is lower than, unless it is
\* lower the other way round as well; any rearrangement if there is none such
sortedStyles(list) ==
    LET ordered == {p \in rearrangements(list) :
                       \A i, j \in 1..Len(p) :
                          i < j => ~(styleLowerThan(p[j], p[i]) /\ ~styleLowerThan(p[i], p[j]))}
    IN IF ordered # {} THEN ordered ELSE rearrangements(list)

\* QModelIndex()
InvalidIndex == [valid |-> FALSE, row |-> 0 - 1, column |-> 0 - 1]

\* createIndex(row, column, ...)
createIndex(row, column) == [valid |-> TRUE, row |-> row, column |-> column]

\* FontStyleModel::index, lines 125-130
index(styles, row, column) ==
    IF column # 0 THEN InvalidIndex
    ELSE IF row > 0 /\ row < Len(styles) THEN createIndex(row, column)
    ELSE InvalidIndex

\* FontStyleModel::rowCount, lines 137-140
rowCount(styles) == Len(styles)

MaxStyles == 2

FontStyles ==
    [instanceCoords : {<<>>, [t \in {WEIGHT_TAG} |-> 400], [t \in {WEIGHT_TAG} |-> 700]},
     isItalic : BOOLEAN, isOblique : BOOLEAN]

\* the constructor, lines 20-25: no styles, nothing asked
FontInit ==
    /\ IdleShape
    /\ pc = "model"
    /\ arg = [row |-> 0 - 1, column |-> 0 - 1, asked |-> FALSE]
    /\ ret = [styles |-> <<>>, index |-> InvalidIndex]

\* FontStyleModel::setStylesInfo, lines 44-50
SetStylesInfo ==
    /\ \E n \in 0..MaxStyles : \E list \in [1..n -> FontStyles] :
          \E sorted \in sortedStyles(list) :
             ret' = [styles |-> sorted, index |-> InvalidIndex]
    /\ arg' = [row |-> 0 - 1, column |-> 0 - 1, asked |-> FALSE]
    /\ UNCHANGED <<layoutVars, pc>>

\* a view asks for an index
CallIndex ==
    /\ \E row \in (0 - 1)..(MaxStyles + 1), column \in {0, 1} :
          /\ arg' = [row |-> row, column |-> column, asked |-> TRUE]
          /\ ret' = [ret EXCEPT !.index = index(ret.styles, row, column)]
    /\ UNCHANGED <<layoutVars, pc>>

FontNext == SetStylesInfo \/ CallIndex

SpecFont == FontInit /\ [][FontNext]_vars

----------------------------------------------------------------------------
\* Properties of relayout.

\* the latest call ran to its end
Completed == runs >= 1 /\ trace.returned = "done"

\* the latest call returned before line 618 (empty tree, or no glyphs)
ReturnedEarly == runs >= 1 /\ trace.returned \in {"empty", "noGlyphs"}

\* a character that is drawn: addressable and shaped
visible(cr) == cr.addressable /\ cr.visualIndex # NoIndex

VisibleIndices(res) == {k \in Indices(res) : visible(At(res, k))}

\* the last visible character; entry 0 stands in when no character is visible
representative(res) ==
    IF VisibleIndices(res) = {} THEN 0
    ELSE CHOOSE k \in VisibleIndices(res) : \A j \in VisibleIndices(res) : j <= k

\* C1 (as stated): up to the end-of-paragraph step the array has one entry per
\* code unit of the text, and the final array is one longer exactly when the
\* last visible (addressable, shaped) character is a mandatory line break;
\* otherwise its length is that of the text.
C1_LengthByLastVisible ==
    Completed =>
        /\ Len(trace.initial) = Len(trace.text)
        /\ Len(trace.fixed) = Len(trace.text)
        /\ Len(result) = Len(trace.text)
              + (IF /\ VisibleIndices(trace.fixed) # {}
                    /\ isMustBreak(At(trace.text, representative(trace.fixed)))
                 THEN 1 ELSE 0)

\* C1 (amended): up to the end-of-paragraph step the array has one entry per
\* code unit, and the final array is one longer exactly when the representative
\* - the last visible character, or entry 0 when no character is visible - is a
\* mandatory break, or is white space followed by a mandatory break (which is
\* then not visible and hands its break type to the representative).
C1_LengthByRepresentative ==
    Completed =>
        /\ Len(trace.initial) = Len(trace.text)
        /\ Len(trace.fixed) = Len(trace.text)
        /\ Len(result) = Len(trace.text)
              + (IF /\ isSpace(At(trace.text, representative(trace.fixed)))
                    /\ \E k \in Indices(trace.text) :
                          /\ k >= representative(trace.fixed)
                          /\ isMustBreak(At(trace.text, k))
                 THEN 1 ELSE 0)

\* a text whose last visible character is a mandatory break got its extra entry
C1_Witness ==
    /\ Completed
    /\ VisibleIndices(trace.fixed) # {}
    /\ isMustBreak(At(trace.text, representative(trace.fixed)))
    /\ Len(trace.text) >= 2
    /\ Len(result) = Len(trace.text) + 1

\* C2: whenever relayout returns - at its end, on an empty tree, or because the
\* shaper gave no glyphs - result, lineBoxes, cursorPos and
\* logicalToVisualCursorPos all come from that call: a call that returned early
\* leaves all four empty, a call that ran to its end leaves its own line boxes.
C2_AllFromThisCall ==
    /\ ReturnedEarly =>
          /\ result = <<>>
          /\ cursorPos = <<>>
          /\ logicalToVisualCursorPos = EmptyMap
          /\ lineBoxes = <<>>
    /\ Completed => lineBoxesAge = "fresh"

----------------------------------------------------------------------------
\* Properties of the single passes.



\* the extent of the characters K of res: [lo, hi] over min/max(pos, pos + advance)
extentLo(res, K) ==
    SetMin({Min2(At(res, k).finalPosition, At(res, k).finalPosition + At(res, k).advance) :
               k \in K})

extentHi(res, K) ==
    SetMax({Max2(At(res, k).finalPosition, At(res, k).finalPosition + At(res, k).advance) :
               k \in K})

AddressableIndices(res) == {k \in Indices(res) : At(res, k).addressable}

samePositions(before, after) ==
    /\ Len(after) = Len(before)
    /\ \A k \in Indices(before) : At(after, k).finalPosition = At(before, k).finalPosition

\* C4: applyTextLength guards against a zero divisor: when the divisor n of a
\* node with textLength is 0, the adjustment is a no-op that leaves every
\* position unchanged.
C4_ZeroDivisorIsNoOp ==
    (pc = "done" /\ ret.div0) => samePositions(arg.result, ret.result)

\* the anchored chunks: each starts at entry 0 or at an addressable character
\* flagged anchored_chunk, and runs up to the next start
chunkStarts(res) ==
    {0} \cup {k \in Indices(res) : At(res, k).addressable /\ At(res, k).anchored_chunk}

chunkCharacters(res, s) ==
    {k \in AddressableIndices(res) :
        k >= s /\ \A t \in chunkStarts(res) : t > s => k < t}

\* the point of the chunk's extent that the anchor and the direction select
anchorPoint(first, lo, hi) ==
    LET rtl == first.direction = "rtl"
    IN IF (first.anchor = "start" /\ ~rtl) \/ (first.anchor = "end" /\ rtl) THEN lo
       ELSE IF (first.anchor = "end" /\ ~rtl) \/ (first.anchor = "start" /\ rtl) THEN hi
       ELSE (lo + hi) \div 2

\* C5: after applyAnchoring, for every anchored chunk the start, end or midpoint
\* (by anchor and direction) of the extent of its addressable characters is the
\* finalPosition the chunk's first entry had before anchoring, also when that
\* first entry is not addressable.
C5_ChunkLandsOnAnchorPoint ==
    pc = "done" =>
        \A s \in chunkStarts(arg) :
            chunkCharacters(arg, s) # {} =>
                anchorPoint(At(arg, s),
                            extentLo(ret, chunkCharacters(arg, s)),
                            extentHi(ret, chunkCharacters(arg, s)))
                    = At(arg, s).finalPosition

\* C6: for a closed path of length L > 0 the position characterResultOnPath
\* returns lies in [0, L] whatever the character's position, advance and the
\* start offset; for an open path a character whose midpoint is below 0 or
\* above L is hidden.
C6_PositionStaysOnPath ==
    pc = "done" =>
        /\ arg.isClosed => (ret.mid >= 0 /\ ret.mid <= arg.length)
        /\ (~arg.isClosed /\ (pathMid(arg.cr, arg.offset) < 0
                                \/ pathMid(arg.cr, arg.offset) > arg.length))
              => ret.cr.hidden

\* the rank of character k among the addressable characters, in visual order
\* (the arrays of this model are left-to-right)
visualRank(res, k) == Cardinality({j \in AddressableIndices(res) : j < k})

\* a single node with lengthAdjust = spacing whose addressable characters are
\* all shaped, at least two of them
spacingCase ==
    /\ Len(arg.tree) = 1
    /\ arg.tree[1].lengthAdjust = "spacing"
    /\ \A k \in AddressableIndices(arg.result) :
          visible(At(arg.result, k)) /\ At(arg.result, k).direction = "ltr"
    /\ Cardinality(AddressableIndices(arg.result)) >= 2

\* C7: for a node with textLength T and lengthAdjust = spacing holding n >= 2
\* addressable, shaped, left-to-right, not yet stretched characters,
\* applyTextLength moves the k-th character in visual order by
\* k * (T - E) / (n - 1), E being the unstretched extent; the extent afterwards
\* is T, and advances, ink boxes and outlines are unchanged.
C7_SpacingGrowsGapsUniformly ==
    (pc = "done" /\ spacingCase) =>
        LET K == AddressableIndices(arg.result)
            E == extentHi(arg.result, K) - extentLo(arg.result, K)
            d == (arg.tree[1].textLength - E) \div (Cardinality(K) - 1)
        IN /\ \A k \in K :
                 /\ At(ret.result, k).finalPosition
                       = At(arg.result, k).finalPosition + visualRank(arg.result, k) * d
                 /\ At(ret.result, k).advance = At(arg.result, k).advance
                 /\ At(ret.result, k).inkBoundingBox = At(arg.result, k).inkBoundingBox
                 /\ At(ret.result, k).glyph = At(arg.result, k).glyph
           /\ extentHi(ret.result, K) - extentLo(ret.result, K) = arg.tree[1].textLength

----------------------------------------------------------------------------
\* Properties of relayout, continued.

\* C8: a second relayout of an unchanged tree, given the same answers by the
\* shaper and the loader, leaves the same character results, line boxes, cursor
\* positions, cursor map, and per-node decorations and outlines as the first.
C8_SecondRunChangesNothing ==
    [][(runs = 1 /\ runs' = 2 /\ ans' = ans) =>
          /\ result' = result
          /\ lineBoxes' = lineBoxes
          /\ cursorPos' = cursorPos
          /\ logicalToVisualCursorPos' = logicalToVisualCursorPos
          /\ nodeOut' = nodeOut]_vars

\* a text with outlines and decorations was laid out for the second time
C8_Witness ==
    /\ runs = 2
    /\ Completed
    /\ Len(result) >= 2
    /\ nodeOut[1].textDecorations # <<>>
    /\ \E p \in 1 .. Len(nodeOut) : nodeOut[p].associatedOutline # <<>>

\* the entry that stands for the cluster of entry k: the closest addressable
\* non-middle entry before k, if there is one
clusterFirsts(res, k) ==
    {j \in Indices(res) : j < k /\ At(res, j).addressable /\ ~At(res, j).middle}

\* C9 (as stated): every entry has visualIndex -1 until shaping; after the
\* fix-up an entry is middle exactly when its visualIndex is -1, and every such
\* entry is hidden and has its cssPosition from its cluster's first character,
\* the closest addressable non-middle entry before it (that entry's cssPosition
\* advanced by its advance).
C9_MiddleFollowsClusterFirst ==
    Completed =>
        /\ \A k \in Indices(trace.initial) : At(trace.initial, k).visualIndex = NoIndex
        /\ \A k \in Indices(trace.fixed) :
              LET cr == At(trace.fixed, k)
              IN /\ cr.middle <=> (cr.visualIndex = NoIndex)
                 /\ cr.middle =>
                       /\ cr.hidden
                       /\ clusterFirsts(trace.fixed, k) # {}
                       /\ LET first == At(trace.fixed, SetMax(clusterFirsts(trace.fixed, k)))
                          IN cr.cssPosition = first.cssPosition + first.advance

\* C9 (amended): as C9, but when no addressable non-middle entry comes before
\* the middle entry, entry 0 stands in for the cluster's first character.
C9_MiddleFollowsClusterFirstOrEntry0 ==
    Completed =>
        /\ \A k \in Indices(trace.initial) : At(trace.initial, k).visualIndex = NoIndex
        /\ \A k \in Indices(trace.fixed) :
              LET cr == At(trace.fixed, k)
                  first == At(trace.fixed,
                              IF clusterFirsts(trace.fixed, k) = {} THEN 0
                              ELSE SetMax(clusterFirsts(trace.fixed, k)))
              IN /\ cr.middle <=> (cr.visualIndex = NoIndex)
                 /\ cr.middle =>
                       /\ cr.hidden
                       /\ cr.cssPosition = first.cssPosition + first.advance

\* a middle entry behind a shaped one, placed at the end of that one's advance
C9_Witness ==
    /\ Completed
    /\ \E k \in Indices(trace.fixed) :
          /\ At(trace.fixed, k).middle
          /\ At(trace.fixed, k).addressable
          /\ clusterFirsts(trace.fixed, k) # {}
          /\ At(trace.fixed, k).cssPosition > 0

\* the addressable characters whose glyph failed to load (a cluster has one
\* glyph in this model)
failedClusters ==
    {At(ans.glyphs.list, n).cluster : n \in {m \in Indices(ans.glyphs.list) :
        /\ ~At(ans.glyphs.list, m).ok
        /\ At(trace.initial, At(ans.glyphs.list, m).cluster).addressable}}

\* where the entry k of the array before the end-of-paragraph step ends up
finalIndex(k) == IF trace.dummyIndex > NoIndex /\ k >= trace.dummyIndex THEN k + 1 ELSE k

----------------------------------------------------------------------------
\* Properties of the dx/dy pass.

\* the characters of res the pass flagged: anchored_chunk afterwards, not before
flaggedByPass(before, after) ==
    {k \in Indices(before) : At(after, k).anchored_chunk /\ ~At(before, k).anchored_chunk}

\* the first addressable non-middle character at or after k, or NoIndex
nextClusterFirst(res, k) ==
    IF \E j \in Indices(res) : j >= k /\ At(res, j).addressable /\ ~At(res, j).middle
    THEN SetMin({j \in Indices(res) : j >= k /\ At(res, j).addressable /\ ~At(res, j).middle})
    ELSE NoIndex

\* C11: when a transform starts a new chunk at a middle character, the dx/dy
\* pass does not flag that character but the next addressable non-middle one;
\* the pass sets anchored_chunk on no middle character, also when several
\* middle characters follow each other.
C11_ChunkStartSkipsMiddle ==
    pc = "done" =>
        /\ \A k \in flaggedByPass(arg.result, ret) : ~At(arg.result, k).middle
        /\ \A k \in Indices(arg.result) :
              (At(arg.result, k).addressable /\ At(arg.result, k).middle
               /\ startsNewChunk(At(arg.resolved, k))
               /\ nextClusterFirst(arg.result, k) # NoIndex)
                 => At(ret, nextClusterFirst(arg.result, k)).anchored_chunk

----------------------------------------------------------------------------
\* Properties of resolveTransforms.

\* C12: resolveTransforms marks a character non-addressable exactly when it is
\* collapsed white space, a soft hyphen, or a directional control in a layout
\* that is not wrapped; in a wrapped layout a directional control that is not
\* collapsed stays addressable, at whatever depth of the tree it is.
C12_NonAddressableCharacters ==
    pc = "done" =>
        \A k \in Indices(arg.text) :
            ~At(ret.result, k).addressable
               <=> \/ arg.collapse[k + 1]
                   \/ isSoftHyphen(At(arg.text, k))
                   \/ (isBidiControl(At(arg.text, k)) /\ ~arg.wrapped)

\* the nodes that are text paths, and the characters they hold
PathNodes(tree) == {p \in 1 .. Len(tree) : tree[p].textPath}

PathIndices(tree, p) == firstIndex(tree, p) .. (firstIndex(tree, p) + numChars(tree, p) - 1)

\* C13 (as stated): every addressable character of a text path has its
\* cross-axis coordinate cleared, named as x when the layout is horizontal and
\* y when it is vertical, and the first addressable character of the path has
\* the other coordinate set to zero.
C13_PathClearsNamedCoordinate ==
    pc = "done" =>
        \A p \in PathNodes(arg.tree) :
            LET K == {k \in PathIndices(arg.tree, p) : At(ret.result, k).addressable}
            IN \A k \in K :
                  /\ IF arg.isHorizontal THEN ~At(ret.resolved, k).xPos.has
                     ELSE ~At(ret.resolved, k).yPos.has
                  /\ k = SetMin(K) =>
                        IF arg.isHorizontal THEN At(ret.resolved, k).yPos = Value(0)
                        ELSE At(ret.resolved, k).xPos = Value(0)

\* C13 (amended): the coordinate across the axis is y when the layout is
\* horizontal and x when it is vertical: every addressable character of a text
\* path has that one cleared, the first addressable character of the path has
\* the coordinate along the axis (x when horizontal, y when vertical) set to
\* zero.
C13_PathClearsCrossAxis ==
    pc = "done" =>
        \A p \in PathNodes(arg.tree) :
            LET K == {k \in PathIndices(arg.tree, p) : At(ret.result, k).addressable}
            IN \A k \in K :
                  /\ IF arg.isHorizontal THEN ~At(ret.resolved, k).yPos.has
                     ELSE ~At(ret.resolved, k).xPos.has
                  /\ k = SetMin(K) =>
                        IF arg.isHorizontal THEN At(ret.resolved, k).xPos = Value(0)
                        ELSE At(ret.resolved, k).yPos = Value(0)

\* a text path whose second addressable character was given an x and a y
C13_Witness ==
    /\ pc = "done"
    /\ arg.isHorizontal
    /\ \E p \in PathNodes(arg.tree) :
          \E k \in PathIndices(arg.tree, p) :
             /\ At(ret.result, k).addressable
             /\ k > firstIndex(arg.tree, p)
             /\ At(ret.result, firstIndex(arg.tree, p)).addressable
             /\ Len(arg.tree[Len(arg.tree)].localTransformations) = 2
             /\ At(ret.resolved, k).xPos = Value(2 * Unit)
             /\ ~At(ret.resolved, k).yPos.has

\* --- applyTextLength: what each node computed ---

\* the entries of the node of e, as the node found them
nodeIndices(e) == {k \in Indices(e.before) : k >= e.i /\ k < e.j}

nodeAddressable(e) == {k \in nodeIndices(e) : At(e.before, k).addressable}

unstretched(e) == {k \in nodeAddressable(e) : ~At(e.before, k).textLengthApplied}

\* the extent of the node's addressable characters
nodeExtentOf(e) ==
    IF nodeAddressable(e) = {} THEN 0
    ELSE extentHi(e.before, nodeAddressable(e)) - extentLo(e.before, nodeAddressable(e))

\* the same extent, with the origin 0 taken in when the node's first entry is
\* not addressable
measuredExtent(e) ==
    LET edges == {At(e.before, k).finalPosition : k \in nodeAddressable(e)}
                 \cup {At(e.before, k).finalPosition + At(e.before, k).advance :
                          k \in nodeAddressable(e)}
                 \cup (IF e.i \in nodeAddressable(e) THEN {} ELSE {0})
    IN SetMax(edges) - SetMin(edges)

lastOne(tree, p) == IF tree[p].lengthAdjust = "spacingAndGlyphs" THEN 0 ELSE 1

resolvedChildNodes(tree, p) == Cardinality({c \in Children(tree, p) : hasTextLength(tree[c])})

appliedEntries == {ret.applied[x] : x \in 1 .. Len(ret.applied)}

sameChunkOutside(e) ==
    {k \in Indices(e.before) :
        \/ /\ k < e.i
           /\ \A s \in Indices(e.before) :
                 (s > k /\ s <= e.i) => ~At(e.before, s).anchored_chunk
        \/ /\ k >= e.j
           /\ \A s \in Indices(e.before) :
                 (s >= e.j /\ s <= k) => ~At(e.before, s).anchored_chunk}

\* the entries that come visually after the last character of the node of e
visuallyAfter(e) ==
    LET shaped == {k \in nodeAddressable(e) : At(e.before, k).visualIndex > NoIndex}
    IN {k \in Indices(e.before) :
           shaped # {} /\ \A x \in shaped : At(e.before, k).visualIndex > At(e.before, x).visualIndex}

\* C15: a descendant's textLength is applied before its ancestor's; outside
\* the node, the shift a node's textLength accumulated is added to the
\* characters that come visually after the node's last character and lie in
\* the same anchored chunk, and to no other: every character of another
\* anchored chunk keeps its finalPosition.
C15_ShiftStaysInChunk ==
    pc = "done" =>
        /\ \A x, y \in 1 .. Len(ret.applied) :
              (ret.applied[y].node \in Subtree(arg.tree, ret.applied[x].node) /\ x # y)
                 => y < x
        /\ {e.node : e \in appliedEntries}
              = {p \in 1 .. Len(arg.tree) : hasTextLength(arg.tree[p])}
        /\ \A e \in appliedEntries :
              \A k \in Indices(e.before) \ nodeIndices(e) :
                 At(e.after, k).finalPosition
                    = At(e.before, k).finalPosition
                        + (IF k \in sameChunkOutside(e) \cap visuallyAfter(e)
                           THEN e.shift ELSE 0)

\* a node stretched by a shift that moved the character after it and left the
\* next anchored chunk where it was
C15_Witness ==
    /\ pc = "done"
    /\ \E e \in appliedEntries :
          /\ e.shift # 0
          /\ \E k \in sameChunkOutside(e) :
                At(e.after, k).finalPosition # At(e.before, k).finalPosition
          /\ \E k \in visuallyAfter(e) \ (sameChunkOutside(e) \cup nodeIndices(e)) :
                /\ At(e.before, k).addressable
                /\ At(e.after, k).finalPosition = At(e.before, k).finalPosition

\* --- cursor positions ---

\* a character that can own cursor positions
ownsCursor(cr) == cr.addressable /\ ~cr.middle /\ cr.plaintTextIndex > NoIndex

\* the cursor positions of entry k, in the order they were emitted
positionsOf(k) == SelectSeq(cursorPos, LAMBDA p : p.cluster = k)

synthetics(cr) == IF cr.anchored_chunk THEN 1 ELSE 0

\* one position per grapheme of the cluster, after the synthetic one
perGrapheme(cr, k) ==
    (IF cr.anchored_chunk THEN <<CursorPos(k, cr.plaintTextIndex, 0, TRUE)>> ELSE <<>>)
    \o [n \in 1 .. Len(cr.graphemeIndices) |->
          CursorPos(k, cr.graphemeIndices[n], n - 1 + synthetics(cr), FALSE)]

\* the caret of the n-th grapheme of g, the one of the synthetic position first
interpolated(cr, g) ==
    (IF cr.anchored_chunk THEN <<IF cr.rtl THEN cr.advance ELSE 0>> ELSE <<>>)
    \o [n \in 1 .. g |->
          IF cr.rtl THEN cr.advance - (n * cr.advance) \div g ELSE (n * cr.advance) \div g]

\* C16: every addressable, non-middle character with a valid original-string
\* index gets one cursor position per grapheme boundary of its cluster, offsets
\* numbered from 0, caret offsets (k+1)*advance/graphemes (advance minus that
\* in a right-to-left cluster), and one synthetic position with offset 0 first
\* when it starts an anchored chunk; other characters get none.
C16_OnePositionPerGrapheme ==
    Completed =>
        \A k \in Indices(trace.positioned) :
            LET cr == At(trace.positioned, k)
            IN IF ownsCursor(cr)
               THEN /\ positionsOf(k) = perGrapheme(cr, k)
                    /\ At(result, k).offsets = interpolated(cr, Len(cr.graphemeIndices))
               ELSE positionsOf(k) = <<>>

\* a hard break gets no position for the last grapheme of its cluster
skipped(cr) == IF cr.breakType = "HardBreak" /\ cr.graphemeIndices # <<>> THEN 1 ELSE 0

allButSkipped(cr, v) == SubSeq(v, 1, Len(v) - skipped(cr))

\* the carets glyph loading left on the character, behind the synthetic one
loadedCarets(cr) ==
    (IF cr.anchored_chunk THEN <<IF cr.rtl THEN cr.advance ELSE 0>> ELSE <<>>) \o cr.offsets

\* What the code emits (C16): a character of the text that is addressable, not
\* middle and has a valid original-string index gets one cursor position per grapheme
\* boundary of its cluster, less the last one when the character is a hard
\* break, after one synthetic position with offset 0 when it starts an anchored
\* chunk; offsets count from 0; the caret offsets are (k+1)*advance/graphemes
\* (advance minus that in a right-to-left cluster) unless glyph loading left at
\* least as many carets as there are positions, which then stay.  The
\* end-of-paragraph entry gets synthetic positions only, when it starts an
\* anchored chunk: one from the block after the loop, and one more from the
\* loop when its index is below the length of the text.  Other entries get none.
C16_PositionsPerGraphemeButHardBreak ==
    Completed =>
        \A k \in Indices(trace.positioned) :
            LET cr == At(trace.positioned, k)
                synthetic == CursorPos(k, cr.plaintTextIndex, 0, TRUE)
                emitted == allButSkipped(cr, perGrapheme(cr, k))
            IN IF k = trace.dummyIndex
               THEN positionsOf(k)
                       = IF ~cr.anchored_chunk THEN <<>>
                         ELSE IF k < Len(trace.text) THEN <<synthetic, synthetic>>
                         ELSE <<synthetic>>
               ELSE IF ownsCursor(cr)
               THEN /\ positionsOf(k) = emitted
                    /\ At(result, k).offsets
                          = IF Len(loadedCarets(cr)) < Len(emitted)
                            THEN allButSkipped(cr, interpolated(cr, Len(cr.graphemeIndices)))
                            ELSE loadedCarets(cr)
               ELSE positionsOf(k) = <<>>

\* a right-to-left cluster of two graphemes at the start of an anchored chunk:
\* a synthetic position and two more, with carets at the advance, its half and 0
C16_Witness ==
    /\ Completed
    /\ \E k \in Indices(trace.positioned) :
          /\ ownsCursor(At(trace.positioned, k))
          /\ At(trace.positioned, k).anchored_chunk
          /\ At(trace.positioned, k).rtl
          /\ Len(At(trace.positioned, k).graphemeIndices) = 2
          /\ Len(positionsOf(k)) = 3
          /\ At(result, k).offsets = <<Unit, Unit \div 2, 0>>

\* the positions the loop over the chunks emitted: all but the one of the block
\* after the loop
loopPositions ==
    IF trace.dummyIndex > NoIndex /\ At(trace.positioned, trace.dummyIndex).anchored_chunk
    THEN SubSeq(cursorPos, 1, Len(cursorPos) - 1)
    ELSE cursorPos

\* the positions emitted for the chunk of leaf p, in emission order
chunkPositions(p) ==
    SelectSeq(loopPositions,
              LAMBDA c : /\ c.cluster >= firstIndex(textData, p)
                         /\ c.cluster < firstIndex(textData, p) + Len(textData[p].text))

Leaves == {p \in 1 .. Len(textData) : isLeaf(textData, p)}

strictlyIncreasing(v) == \A x, y \in 1 .. Len(v) : x < y => v[x].index < v[y].index

\* C17: within each chunk the original-string offsets of the cursor positions
\* grow strictly in emission order, the synthetic positions at anchored-chunk
\* starts included: none is repeated, none goes backwards.
C17_OffsetsStrictlyIncrease ==
    Completed => \A p \in Leaves : strictlyIncreasing(chunkPositions(p))

\* C17 (amended): within each chunk no offset goes backwards in emission
\* order, and none is repeated but by a synthetic position, which has the
\* offset of its character and may so repeat the offset of the position
\* emitted before it.
C17_OffsetsNeverDecrease ==
    Completed =>
        \A p \in Leaves :
            LET v == chunkPositions(p)
            IN \A x \in 1 .. Len(v) :
                  /\ x > 1 => \/ v[x - 1].index < v[x].index
                              \/ v[x].synthetic /\ v[x - 1].index = v[x].index
                  /\ v[x].synthetic =>
                        v[x].index = At(trace.positioned, v[x].cluster).plaintTextIndex

\* a chunk whose second character starts an anchored chunk: its synthetic
\* position repeats the offset of the position before it
C17_Witness ==
    /\ Completed
    /\ \E p \in Leaves :
          \E x \in 2 .. Len(chunkPositions(p)) :
             /\ chunkPositions(p)[x].synthetic
             /\ chunkPositions(p)[x].index = chunkPositions(p)[x - 1].index
             /\ x < Len(chunkPositions(p))

\* --- logicalToVisualCursorPositions ---

\* the line chunks, each a sequence of character indices
lineChunks == {concatAll(lineBoxes)[x] : x \in 1 .. Len(concatAll(lineBoxes))}

\* the cursor positions (by their place in cursorPos) of the characters of a chunk
positionsIn(chunk) ==
    {k \in Indices(cursorPos) : \E x \in 1 .. Len(chunk) : chunk[x] = At(cursorPos, k).cluster}

\* position a comes before position b on the rendered line: its character has
\* the lower visual index, or it is the same character and a lies before b in
\* offset order, reversed when the cluster is right-to-left
leftOf(a, b) ==
    LET ca == At(result, a.cluster)
        cb == At(result, b.cluster)
    IN \/ ca.visualIndex < cb.visualIndex
       \/ /\ a.cluster = b.cluster
          /\ IF ca.rtl THEN a.offset > b.offset ELSE a.offset < b.offset

\* C18: logicalToVisualCursorPositions ranks the cursor positions of each line
\* chunk by the visual index of their character and, inside a right-to-left
\* cluster, in the reverse of their offset order: the ranks grow along the
\* rendered line, from its left end in a left-to-right paragraph and from its
\* right end in a right-to-left one.
C18_RanksFollowTheLine ==
    Completed =>
        \A chunk \in lineChunks :
            \A a, b \in positionsIn(chunk) :
                /\ a \in DOMAIN logicalToVisualCursorPos
                /\ leftOf(At(cursorPos, a), At(cursorPos, b)) =>
                      IF trace.ltr
                      THEN logicalToVisualCursorPos[a] < logicalToVisualCursorPos[b]
                      ELSE logicalToVisualCursorPos[a] > logicalToVisualCursorPos[b]

\* --- applyTextPath: the elements after a path ---

\* the first character of the element that follows the path element
afterPathFirst ==
    LET p == CHOOSE q \in 2 .. Len(arg.tree) : arg.tree[q].textPath
    IN firstIndex(arg.tree, p) + numChars(arg.tree, p)

\* the next anchored-chunk start at or after k, the length of the text if none
nextChunkStart(res, k) ==
    SetMin({x \in Indices(res) : x >= k /\ At(res, x).anchored_chunk} \cup {Len(res)})

\* C20: applyTextPath translates every character after the path up to the next
\* anchored-chunk start by (end point of the path - finalPosition of the first
\* character after the path), and no character at or after that start, in the
\* element of the start or in a later one.
C20_TranslatedUpToChunkStart ==
    pc = "done" =>
        \A k \in Indices(arg.result) :
            k >= afterPathFirst =>
                At(ret.result, k).finalPosition
                   = At(arg.result, k).finalPosition
                       + (IF k < nextChunkStart(arg.result, afterPathFirst)
                          THEN arg.path.origin + arg.path.length
                                  - At(arg.result, afterPathFirst).finalPosition
                          ELSE 0)

----------------------------------------------------------------------------
\* C19: the passes dx/dy, textLength, x/y, anchoring and text path run in
\* that order, after line breaking and line-box alignment, and only for a
\* text that is not wrapped, with the decorations computed between anchoring
\* and text path; for a wrapped text none of the five runs, the decorations
\* are computed, and every finalPosition stays as line-box alignment left it.

passOrder(wrapped) ==
    IF wrapped
    THEN <<"breakLines", "handleLineBoxAlignment", "computeTextDecorations">>
    ELSE <<"breakLines", "handleLineBoxAlignment", "dxdy", "textLength", "xy",
           "anchoring", "computeTextDecorations", "textPath">>

C19_PassesInOrder ==
    /\ Len(ret.passes) <= Len(passOrder(arg.wrapped))
    /\ ret.passes = SubSeq(passOrder(arg.wrapped), 1, Len(ret.passes))
    /\ pc = "cursor" => ret.passes = passOrder(arg.wrapped)
    /\ arg.wrapped /\ Len(ret.passes) >= 2 =>
          \A k \in Indices(ret.result) :
             At(ret.result, k).finalPosition = At(ret.aligned, k).finalPosition

C19_Witness ==
    /\ pc = "cursor"
    /\ ~arg.wrapped
    /\ Len(ret.passes) = 8
    /\ \E k \in Indices(ret.result) :
          At(ret.result, k).finalPosition # At(ret.aligned, k).finalPosition

----------------------------------------------------------------------------
\* C21: when the last visible character is a mandatory break, the
\* end-of-paragraph entry is the last entry of the array (the characters of
\* the text keep their indices), it is addressable, its advance is zero, and
\* its cssPosition is the break's cssPosition plus the break's advance; also
\* when collapsed or unshaped characters follow the break.

endsInBreak ==
    /\ Completed
    /\ VisibleIndices(trace.fixed) # {}
    /\ isMustBreak(At(trace.text, representative(trace.fixed)))

\* the end-of-paragraph entry as the claim describes it, wherever it is
dummyAsClaimed ==
    /\ trace.dummyIndex > NoIndex
    /\ Len(result) = Len(trace.text) + 1
    /\ LET dummy == At(result, trace.dummyIndex)
           break == At(trace.fixed, representative(trace.fixed))
       IN /\ dummy.addressable
          /\ dummy.advance = 0
          /\ dummy.cssPosition = break.cssPosition + break.advance

C21_DummyIsLast ==
    endsInBreak =>
        /\ dummyAsClaimed
        /\ trace.dummyIndex = Len(trace.text)
        /\ \A k \in Indices(trace.text) : At(result, k).plaintTextIndex = k

\* what the code does (lines 581-583): the entry goes right behind the break
C21_DummyFollowsBreak ==
    endsInBreak =>
        /\ dummyAsClaimed
        /\ trace.dummyIndex = representative(trace.fixed) + 1

----------------------------------------------------------------------------
\* C22: after shaping and the insertion of the end-of-paragraph entry no two
\* entries with a visualIndex other than -1 share it, and logicalToVisual sends
\* the array index of each such entry to its visualIndex; also for a
\* right-to-left text that ends in a mandatory break.

shapedIndices(res) == {k \in Indices(res) : At(res, k).visualIndex # NoIndex}

C22_VisualIndicesDistinct ==
    Completed =>
        /\ \A j, k \in shapedIndices(result) :
              j # k => At(result, j).visualIndex # At(result, k).visualIndex
        /\ \A k \in shapedIndices(result) :
              /\ k \in DOMAIN trace.logicalToVisual
              /\ trace.logicalToVisual[k] = At(result, k).visualIndex

\* the same for the layouts that got no end-of-paragraph entry
C22_DistinctWithoutDummy ==
    Completed /\ trace.dummyIndex = NoIndex => C22_VisualIndicesDistinct

\* ... and for those in which the break is the last glyph in visual order
C22_DistinctWhenBreakIsLastGlyph ==
    /\ Completed
    /\ trace.dummyIndex > NoIndex
    /\ \A k \in shapedIndices(trace.fixed) :
          At(trace.fixed, k).visualIndex <= At(trace.fixed, trace.dummyIndex - 1).visualIndex
    => C22_VisualIndicesDistinct

----------------------------------------------------------------------------
\* C23: logicalToVisualCursorPositions maps the cursor positions whose
\* character is in a line chunk one-to-one onto 0..N-1: every such position
\* has a rank, no two share one, and no rank is skipped.

rankedPositions == UNION {positionsIn(chunk) : chunk \in lineChunks}

C23_RanksAreABijection ==
    Completed =>
        /\ DOMAIN logicalToVisualCursorPos = rankedPositions
        /\ \A a, b \in rankedPositions :
              a # b => logicalToVisualCursorPos[a] # logicalToVisualCursorPos[b]
        /\ {logicalToVisualCursorPos[a] : a \in rankedPositions}
              = 0 .. (Cardinality(rankedPositions) - 1)

\* two cursor positions of one character with the same offset
doubledPosition ==
    \E a, b \in Indices(cursorPos) :
        /\ a # b
        /\ At(cursorPos, a).cluster = At(cursorPos, b).cluster
        /\ At(cursorPos, a).offset = At(cursorPos, b).offset

\* the ranks are a bijection whenever no position is doubled
C23_BijectionButForDoubles ==
    Completed /\ ~doubledPosition => C23_RanksAreABijection

----------------------------------------------------------------------------
\* C24: generateDecorationPaths begins a new run at every anchored chunk
\* start among the visible addressable characters of the node, every such
\* character lies in exactly one run, and all runs of one decoration type are
\* placed at the same offset from the text, whatever the style.

decorated(res) == {k \in Indices(res) : At(res, k).addressable /\ ~At(res, k).hidden}

C24_RunsAtOneOffset ==
    pc = "done" =>
        /\ \A k \in decorated(arg.result), type \in arg.decor :
              /\ Cardinality({r \in ret : r.type = type
                                 /\ \E x \in 1 .. Len(r.chars) : r.chars[x] = k}) = 1
              /\ At(arg.result, k).anchored_chunk =>
                    \E r \in ret : r.type = type /\ r.chars # <<>> /\ r.chars[1] = k
        /\ \A r, s \in ret :
              r.type = s.type /\ r.chars # <<>> /\ s.chars # <<>> => r.offset = s.offset

\* runs and membership are as claimed; the offset drifts only with the styles
\* that have a pathWidth, by one pathWidth per run
C24_OffsetDriftsByPathWidth ==
    pc = "done" =>
        /\ \A k \in decorated(arg.result), type \in arg.decor :
              /\ Cardinality({r \in ret : r.type = type
                                 /\ \E x \in 1 .. Len(r.chars) : r.chars[x] = k}) = 1
              /\ At(arg.result, k).anchored_chunk =>
                    \E r \in ret : r.type = type /\ r.chars # <<>> /\ r.chars[1] = k
        /\ \A r, s \in ret :
              r.type = s.type /\ (arg.style \notin {"Double", "Wavy"} \/ r.type = "underline")
                 => r.offset = s.offset
        /\ \A r \in ret :
              r.type = "overline" =>
                 r.offset = arg.offsets.overline + (r.run + 1) * pathWidth(arg.style)

----------------------------------------------------------------------------
\* C25: applyTextLength on a node that has a textLength but no addressable
\* character with a visual index (its characters are all collapsed, middle or
\* unshaped) changes no position and never takes the last element of the
\* empty list of visual indices.

\* the nodes with a textLength that the pass found without a character to move
unshapedNodes ==
    {x \in DOMAIN ret.applied :
        nodeVisualToLogical(ret.applied[x].before, ret.applied[x].i, ret.applied[x].j)
            = EmptyMap}

C25_NoVisibleCharacterIsNoOp ==
    pc = "done" /\ unshapedNodes # {} =>
        /\ \A x \in unshapedNodes : ret.applied[x].after = ret.applied[x].before
        /\ ~ret.noLast

\* the list is read at line 989 exactly for these nodes
C25_LastOfEmptyListForUnshapedNodes ==
    pc = "done" => (ret.noLast <=> unshapedNodes # {})

----------------------------------------------------------------------------
\* C26: KisMaskingBrushCompositeOpFactory::create returns an op for every
\* supported channel type and any id: an id outside supportedCompositeOpIds()
\* gives the multiply op, and null is returned only for a channel type that
\* is not supported.

\* the channel types a colour space can have in this build
supportedChannelTypes(haveOpenExr) ==
    {"UINT8", "UINT16", "UINT32", "FLOAT32", "FLOAT64", "INT16"}
    \cup (IF haveOpenExr THEN {"FLOAT16"} ELSE {})

supportedId(id) ==
    \E n \in 1 .. Len(supportedCompositeOpIds) : supportedCompositeOpIds[n] = id

C26_CreateFallsBackToMultiply ==
    pc = "done" =>
        /\ ret.null <=> arg.channelType \notin supportedChannelTypes(arg.haveOpenExr)
        /\ ~ret.null =>
              /\ ~supportedId(arg.id) => ret.function = "cfMultiply"
              /\ supportedId(arg.id) /\ arg.id # "COMPOSITE_MULT"
                    => ret.function # "cfMultiply"
              /\ ret.pixelSize = arg.pixelSize
              /\ ret.alphaOffset = arg.alphaOffset

C26_Witness ==
    /\ pc = "done"
    /\ ~supportedId(arg.id)
    /\ arg.channelType = "FLOAT32"
    /\ ~ret.null
    /\ ret.function = "cfMultiply"

----------------------------------------------------------------------------
\* C27: the availability state goes by strict priority - BlockedFully with
\* any blocker, else BlockedByThreshold when the threshold is supported and
\* the brush is smaller than it, else Limited with any limitation, else
\* Available - and effectiveLodAvailable is true exactly in the states
\* Available and Limited, whatever isLodUserAllowed is.

belowThreshold ==
    arg.data.isLodSizeThresholdSupported /\ arg.effectiveBrushSize < arg.data.lodSizeThreshold

----------------------------------------------------------------------------
\* C28: extractColors terminates for every colour list and every
\* numberOfColors; it divides only a box whose largest axis is at least 3
\* long and that holds more than 3 colours, every division leaves both boxes
\* non-empty (mean() never divides by zero), and at most
\* max(1, numberOfColors) colours are appended to the shared store.

largestExtent(box) ==
    SetMax({axisSize(box, RedAxis), axisSize(box, GreenAxis), axisSize(box, BlueAxis)})

C28_DivisionsAreSound ==
    pc # "call" =>
        /\ \A x \in 1 .. Len(ret.divided) :
              /\ largestExtent(ret.divided[x].box) >= 3
              /\ Len(ret.divided[x].box) > 3
              /\ ret.divided[x].kept # <<>>
              /\ ret.divided[x].new # <<>>
        /\ \A x \in 1 .. Len(ret.boxes) : ret.boxes[x] # <<>> \/ arg.colors = <<>>
        \* every iteration adds a box, and the loops stop at numberOfColors boxes
        /\ Len(ret.boxes) = 1 + Len(ret.divided)
        /\ Len(ret.boxes) <= Max2(1, arg.numColors)
        /\ Len(ret.commonColors) - Len(arg.commonColors) <= Max2(1, arg.numColors)
        /\ pc = "done" =>
              Len(ret.commonColors) - Len(arg.commonColors)
                 = Cardinality({x \in 1 .. Len(ret.boxes) : ret.boxes[x] # <<>>})

C28_Witness ==
    /\ pc = "done"
    /\ Len(ret.divided) = 2
    /\ Len(ret.commonColors) = 3

----------------------------------------------------------------------------
\* C29: a predefined brush model written with toXML and read back with
\* createBrushModel (the brush file being there) has the same application,
\* useAutoSpacing, adjustmentMidPoint and autoAdjustMidPoint, and none of the
\* legacy conversions is applied: the scale is not doubled, mid-point,
\* brightness and contrast are not rescaled; any number of write/read cycles
\* keeps these values.

\* a write/read cycle has ended
cycled == pc = "model" /\ ret.cycles >= 1

sameCommon ==
    /\ ret.model.application = ret.first.application
    /\ ret.model.useAutoSpacing = ret.first.useAutoSpacing
    /\ ret.model.scale = number(ret.first.scale)

sameAdjustments ==
    /\ ret.model.adjustmentMidPoint = ret.first.adjustmentMidPoint
    /\ ret.model.autoAdjustMidPoint = ret.first.autoAdjustMidPoint
    /\ ret.model.brightnessAdjustment = number(ret.first.brightnessAdjustment)
    /\ ret.model.contrastAdjustment = number(ret.first.contrastAdjustment)

C29_RoundTripKeepsAll == cycled => sameCommon /\ sameAdjustments

\* C29 (amended): the adjustments come back for every brush but an abr brush,
\* whose element does not hold them
C29_RoundTripKeepsAllButAbrAdjustments ==
    cycled => /\ sameCommon
              /\ arg.resource.id # "abr_brush" => sameAdjustments

C29_Witness ==
    /\ cycled
    /\ ret.cycles = MaxCycles
    /\ arg.resource.id # "abr_brush"
    /\ ret.first.adjustmentMidPoint = 200
    /\ ret.first.scale = 1234567
    /\ ret.model.scale = 1234570
    /\ ret.first.contrastAdjustment < 0
    /\ ret.first.application = LIGHTNESSMAP

----------------------------------------------------------------------------
\* C30: FontStyleModel::index(row, 0) is a valid index for every row with
\* 0 <= row < rowCount(), so that every style set by setStylesInfo can be
\* addressed, and an invalid index for any other row or column.

\* the rows of the styles
styleRows == 0..(rowCount(ret.styles) - 1)

C30_IndexValidForEveryRow ==
    arg.asked => (ret.index.valid <=> (arg.column = 0 /\ arg.row \in styleRows))

\* what the code does: the first style has no index
C30_IndexValidButForRowZero ==
    arg.asked => (ret.index.valid <=> (arg.column = 0 /\ arg.row \in styleRows \ {0}))

\* a valid index is the index of the row asked for
C30_ValidIndexIsOfTheRow ==
    arg.asked /\ ret.index.valid =>
        ret.index.row = arg.row /\ ret.index.column = arg.column

====
